---- MODULE Spec2Model ----
(***************************************************************************)
(* git-daemon: the job manager (src/jobs.ts), the SSE stream route and the *)
(* request admission pipeline (src/app.ts, src/security.ts).               *)
(***************************************************************************)
EXTENDS Integers, Sequences, FiniteSets, TLC

(* ------------------------------ bounds --------------------------------- *)
\* jobs enqueued in one behaviour of Spec
MaxJobs == 2
\* jobs enqueued in one behaviour of StreamSpec
StreamJobs == 1
\* largest jobs.maxConcurrent tried
MaxConcurrent == 2
\* log/progress events the runners emit in one behaviour
MaxLogs == 2
\* streams opened in one behaviour
MaxStreams == 1
\* components of a candidate path
MaxDepth == 3
\* calls of PairingManager.start in one behaviour
MaxStarts == 2
\* calls of PairingManager.confirm in one behaviour
MaxConfirms == 3
\* calls of TokenStore.issueToken in one behaviour
MaxIssues == 3
\* calls of ensureApproval in one behaviour
MaxCalls == 2
\* approval entries of a config.json
MaxEntries == 2
\* peer, Host, Origin and body wrong in one request
MaxFaults == 2
\* characters of a repoUrl after its scheme
MaxUrl == 3
\* jobs enqueued where the order of the queue is looked at
QueueJobs == 4
\* jobs enqueued where the history overflows
RingJobs == 3

\* calls of issueToken and revokeToken in the tokens.json model
MaxSaves == 3

(* ------------------------- program constants --------------------------- *)
\* jobs.ts: const MAX_EVENTS = 2000, scaled down so that the ring overflows
MAX_EVENTS == 2
\* jobs.ts track(): this.history.length > 100, scaled down likewise
HISTORY_LIMIT == 2

VARIABLES
  maxConcurrent,  \* JobManager.maxConcurrent
  timeoutMs,      \* JobManager.timeoutMs (0: no timer is armed)
  jobs,           \* JobManager.jobs: id -> Job (ids are 1..Len(jobs))
  queue,          \* JobManager.queue: ids of the queued entries, oldest first
  running,        \* JobManager.running
  history,        \* JobManager.history: ids, oldest first
  task,           \* per job: its runner promise, its timer, its timeout callback
  emitted,        \* per job: every event ever passed to Job.emit, in order
  streams,        \* the SSE responses opened by GET /v1/jobs/:id/stream
  last,           \* the last call of enqueue or cancel and what it returned
  config,         \* ctx.config: originAllowlist, workspaceRoot, approvals
  entries,        \* TokenStore.entries
  codes,          \* PairingManager.codes: origin -> pairing code
  hits,           \* request counts of the two rate limiters in this window
  req,            \* the request being handled, NoRequest between requests
  res,            \* the response to req, NoResponse until it is sent
  pending,        \* the async calls suspended at an await, oldest first
  call,           \* the last call of a component that returned, with its result
  hist,           \* history: what start, issueToken and the prompts have handed out
  linked          \* the copy of the approvals module that the build links

jobVars == <<maxConcurrent, timeoutMs, jobs, queue, running, history, task,
             emitted, streams, last>>

httpVars == <<config, linked, entries, codes, hits, req, res>>

callVars == <<pending, call, hist>>

vars == <<jobVars, httpVars, callVars>>

TerminalStates == {"done", "error", "cancelled"}

(* ------------------------------ events --------------------------------- *)
StateEvent(s, m) ==
  [type |-> "state", state |-> s, message |-> m, stream |-> "", line |-> 0]

LogEvent(st, n) ==
  [type |-> "log", state |-> "", message |-> "", stream |-> st, line |-> n]

ProgressEvent(n) ==
  [type |-> "progress", state |-> "", message |-> "", stream |-> "", line |-> n]

isTerminalState(event) ==
  event.type = "state" /\ event.state \in TerminalStates

(* ------------------------------- Job ----------------------------------- *)
NewJob ==
  [state |-> "queued", startedAt |-> FALSE, finishedAt |-> FALSE,
   error |-> "none", events |-> <<>>, cancelRequested |-> FALSE,
   cancelFn |-> FALSE]

NewTask ==
  [runner |-> "none", timer |-> "none", tpc |-> "idle", nlog |-> 0,
   sigterm |-> FALSE, timedOut |-> FALSE]

\* the manager's state as one value, so that methods compose as in the code
Mgr ==
  [jobs |-> jobs, queue |-> queue, running |-> running, history |-> history,
   task |-> task, emitted |-> emitted, streams |-> streams]

Commit(m) ==
  /\ jobs' = m.jobs
  /\ queue' = m.queue
  /\ running' = m.running
  /\ history' = m.history
  /\ task' = m.task
  /\ emitted' = m.emitted
  /\ streams' = m.streams

\* Job.emit that refuses the new event when the ring is full
RingPushDropsNewest(events, event) ==
  LET pushed == Append(events, event)
  IN IF Len(pushed) > MAX_EVENTS THEN events ELSE pushed

\* Job.emit: push, drop the oldest beyond MAX_EVENTS
RingPush(events, event) ==
  LET pushed == Append(events, event)
  IN IF Len(pushed) > MAX_EVENTS THEN Tail(pushed) ELSE pushed

\* the stream route's listener: write the event, end on a terminal state
Listener(s, id, event) ==
  IF s.job = id /\ s.status = "open"
  THEN [s EXCEPT !.received = Append(@, event),
                 !.status = IF isTerminalState(event) THEN "ended" ELSE @]
  ELSE s

\* Job.emit, with emitter.emit("event", event) reaching every listener
Emit(m, id, event) ==
  [m EXCEPT !.jobs[id].events = RingPush(@, event),
            !.emitted[id] = Append(@, event),
            !.streams = [i \in DOMAIN m.streams |->
                           Listener(m.streams[i], id, event)]]

\* Job.cancel that gives the job's slot back at once
JobCancelFreesSlot(m, id) ==
  [m EXCEPT !.jobs[id].cancelRequested = TRUE,
            !.task[id].sigterm = @ \/ m.jobs[id].cancelFn,
            !.running = @ - 1]

\* Job.cancel up to its await: cancelRequested, and the handle (treeKill
\* with SIGTERM) is invoked when one is registered
JobCancel(m, id) ==
  [m EXCEPT !.jobs[id].cancelRequested = TRUE,
            !.task[id].sigterm = @ \/ m.jobs[id].cancelFn]

(* ---------------------------- JobManager ------------------------------- *)
\* runJob up to run(ctx): the callbacks are the actions further down
RunJob(m, id) ==
  LET m1 == [m EXCEPT !.running = @ + 1,
                      !.jobs[id].state = "running",
                      !.jobs[id].startedAt = TRUE]
      m2 == Emit(m1, id, StateEvent("running", ""))
  IN [m2 EXCEPT !.task[id].timer = IF timeoutMs > 0 THEN "armed" ELSE "none",
                !.task[id].runner = "starting"]

\* drain with the cap compared by <= instead of <
RECURSIVE DrainOffByOne(_)
DrainOffByOne(m) ==
  IF m.running <= maxConcurrent /\ Len(m.queue) > 0
  THEN DrainOffByOne(RunJob([m EXCEPT !.queue = Tail(@)], Head(m.queue)))
  ELSE m

RECURSIVE Drain(_)
Drain(m) ==
  IF m.running < maxConcurrent /\ Len(m.queue) > 0
  THEN Drain(RunJob([m EXCEPT !.queue = Tail(@)], Head(m.queue)))
  ELSE m

Track(m, id) ==
  LET pushed == Append(m.history, id)
  IN [m EXCEPT !.history =
        IF Len(pushed) > HISTORY_LIMIT THEN Tail(pushed) ELSE pushed]

\* enqueue that puts the new job at the front of the queue
EnqueueOpAtFront(m) ==
  LET id == Len(m.jobs) + 1
      m1 == [m EXCEPT !.jobs = Append(@, NewJob),
                      !.task = Append(@, NewTask),
                      !.emitted = Append(@, <<>>),
                      !.queue = <<id>> \o @]
  IN Drain(Track(m1, id))

EnqueueOp(m) ==
  LET id == Len(m.jobs) + 1
      m1 == [m EXCEPT !.jobs = Append(@, NewJob),
                      !.task = Append(@, NewTask),
                      !.emitted = Append(@, <<>>),
                      !.queue = Append(@, id)]
  IN Drain(Track(m1, id))

RemoveAt(seq, i) ==
  SubSeq(seq, 1, i - 1) \o SubSeq(seq, i + 1, Len(seq))

\* queue.findIndex: the first position holding id, 0 when there is none
FindIndex(seq, id) ==
  IF \E i \in 1..Len(seq) : seq[i] = id
  THEN CHOOSE i \in 1..Len(seq) :
         seq[i] = id /\ \A k \in 1..(i - 1) : seq[k] # id
  ELSE 0

\* get that looks the job up in the history
getRecent(m, id) ==
  IF \E i \in DOMAIN m.history : m.history[i] = id THEN <<id>> ELSE <<>>

\* JobManager.get: jobs.get(id), <<>> for undefined
get(m, id) == IF id \in DOMAIN m.jobs THEN <<id>> ELSE <<>>

\* Job.snapshot
snapshot(m, id) ==
  [id |-> id, state |-> m.jobs[id].state, startedAt |-> m.jobs[id].startedAt,
   finishedAt |-> m.jobs[id].finishedAt, error |-> m.jobs[id].error]

\* JobManager.listRecent
listRecent(m) == [i \in DOMAIN m.history |-> snapshot(m, m.history[i])]

\* cancel that leaves a queued job in the queue
CancelOpKeepsQueued(m, id) ==
  LET queuedIndex == FindIndex(m.queue, id)
  IN IF queuedIndex >= 1
     THEN LET m1 == [m EXCEPT !.jobs[id].state = "cancelled",
                              !.jobs[id].finishedAt = TRUE]
          IN [m |-> Emit(m1, id, StateEvent("cancelled", "")), ret |-> TRUE]
     ELSE IF id \notin DOMAIN m.jobs
     THEN [m |-> m, ret |-> FALSE]
     ELSE IF m.jobs[id].state # "running"
     THEN [m |-> m, ret |-> FALSE]
     ELSE LET m1 == JobCancel(m, id)
              m2 == [m1 EXCEPT !.jobs[id].state = "cancelled",
                               !.jobs[id].finishedAt = TRUE]
          IN [m |-> Emit(m2, id, StateEvent("cancelled", "")), ret |-> TRUE]

\* JobManager.cancel: the new manager state and the value returned
CancelOp(m, id) ==
  LET queuedIndex == FindIndex(m.queue, id)
  IN IF queuedIndex >= 1
     THEN LET m1 == [m EXCEPT !.queue = RemoveAt(@, queuedIndex),
                              !.jobs[id].state = "cancelled",
                              !.jobs[id].finishedAt = TRUE]
          IN [m |-> Emit(m1, id, StateEvent("cancelled", "")), ret |-> TRUE]
     ELSE IF id \notin DOMAIN m.jobs
     THEN [m |-> m, ret |-> FALSE]
     ELSE IF m.jobs[id].state # "running"
     THEN [m |-> m, ret |-> FALSE]
     ELSE LET m1 == JobCancel(m, id)
              m2 == [m1 EXCEPT !.jobs[id].state = "cancelled",
                               !.jobs[id].finishedAt = TRUE]
          IN [m |-> Emit(m2, id, StateEvent("cancelled", "")), ret |-> TRUE]

(* ------------------------------ actions -------------------------------- *)
Config == UNCHANGED <<maxConcurrent, timeoutMs, httpVars, callVars>>

\* a callback ran: no call of the API returned
Async == [op |-> "async", id |-> 0, ret |-> TRUE]

Enqueue(cap) ==
  /\ Len(jobs) < cap
  /\ Commit(EnqueueOp(Mgr))
  /\ last' = [op |-> "enqueue", id |-> Len(jobs) + 1, ret |-> TRUE]
  /\ Config

Cancel(id) ==
  /\ LET r == CancelOp(Mgr, id)
     IN /\ Commit(r.m)
        /\ last' = [op |-> "cancel", id |-> id, ret |-> r.ret]
  /\ Config

\* ctx.setCancel from runCommand once the child is spawned
RunnerSpawn(id) ==
  /\ id \in DOMAIN jobs
  /\ task[id].runner = "starting"
  /\ Commit([Mgr EXCEPT !.task[id].runner = "spawned",
                        !.jobs[id].cancelFn = TRUE])
  /\ last' = Async
  /\ Config

\* ctx.logStdout, ctx.logStderr, ctx.progress
CtxEvent(kind, n) ==
  IF kind = "progress" THEN ProgressEvent(n) ELSE LogEvent(kind, n)

RECURSIVE TotalLogs(_, _)
TotalLogs(t, n) ==
  IF n = 0 THEN 0 ELSE t[n].nlog + TotalLogs(t, n - 1)

RunnerLog(id, kind) ==
  /\ id \in DOMAIN jobs
  /\ task[id].runner = "spawned"
  /\ TotalLogs(task, Len(task)) < MaxLogs
  /\ Commit(Emit([Mgr EXCEPT !.task[id].nlog = @ + 1], id,
                 CtxEvent(kind, task[id].nlog + 1)))
  /\ last' = Async
  /\ Config

\* .then of run(ctx)
OnResolved(m, id) ==
  IF m.jobs[id].state # "running"
  THEN m
  ELSE Emit([m EXCEPT !.jobs[id].state = "done",
                      !.jobs[id].finishedAt = TRUE],
            id, StateEvent("done", ""))

\* .catch of run(ctx) without its check of the job's state
OnRejectedUnguarded(m, id) ==
  Emit([m EXCEPT !.jobs[id].state = "error",
                 !.jobs[id].finishedAt = TRUE,
                 !.jobs[id].error = "internal_error"],
       id, StateEvent("error", "Job failed."))

\* .catch of run(ctx)
OnRejected(m, id) ==
  IF m.jobs[id].state # "running"
  THEN m
  ELSE Emit([m EXCEPT !.jobs[id].state = "error",
                      !.jobs[id].finishedAt = TRUE,
                      !.jobs[id].error = "internal_error"],
            id, StateEvent("error", "Job failed."))

\* .finally of run(ctx) without its call of drain
OnSettledNoDrain(m, id) ==
  [m EXCEPT !.task[id].timer = IF @ = "armed" THEN "cleared" ELSE @,
            !.task[id].runner = "settled",
            !.running = @ - 1]

\* .finally of run(ctx)
OnSettled(m, id) ==
  Drain([m EXCEPT !.task[id].timer = IF @ = "armed" THEN "cleared" ELSE @,
                  !.task[id].runner = "settled",
                  !.running = @ - 1])

RunnerSucceed(id) ==
  /\ id \in DOMAIN jobs
  /\ task[id].runner = "spawned"
  /\ Commit(OnSettled(OnResolved(Mgr, id), id))
  /\ last' = Async
  /\ Config

RunnerFail(id) ==
  /\ id \in DOMAIN jobs
  /\ task[id].runner \in {"starting", "spawned"}
  /\ Commit(OnSettled(OnRejected(Mgr, id), id))
  /\ last' = Async
  /\ Config

\* the timeout callback after its await
TimeoutTail(m, id) ==
  Emit([m EXCEPT !.jobs[id].state = "error",
                 !.jobs[id].finishedAt = TRUE,
                 !.task[id].tpc = "done"],
       id, StateEvent("error", "Timed out"))

\* the timeout callback up to `await job.cancel()`.  Without a registered
\* handle the await resumes in the same macrotask and nothing interleaves;
\* with a handle the callback is suspended until treeKill calls back.
TimeoutHead(m, id) ==
  IF m.jobs[id].state # "running"
  THEN [m EXCEPT !.task[id].timer = "fired"]
  ELSE LET m1 == [m EXCEPT !.task[id].timer = "fired",
                           !.task[id].timedOut = TRUE,
                           !.jobs[id].error = "timeout"]
           m2 == JobCancel(m1, id)
       IN IF m.jobs[id].cancelFn
          THEN [m2 EXCEPT !.task[id].tpc = "awaiting"]
          ELSE TimeoutTail(m2, id)

TimerFire(id) ==
  /\ id \in DOMAIN jobs
  /\ task[id].timer = "armed"
  /\ Commit(TimeoutHead(Mgr, id))
  /\ last' = Async
  /\ Config

TimeoutResume(id) ==
  /\ id \in DOMAIN jobs
  /\ task[id].tpc = "awaiting"
  /\ Commit(TimeoutTail(Mgr, id))
  /\ last' = Async
  /\ Config

(* ---------------------- GET /v1/jobs/:id/stream ------------------------ *)
\* the replay loop: send the ring in order, stop after a terminal state
RECURSIVE Replay(_)
Replay(events) ==
  IF events = <<>>
  THEN [received |-> <<>>, ended |-> FALSE]
  ELSE IF isTerminalState(Head(events))
  THEN [received |-> <<Head(events)>>, ended |-> TRUE]
  ELSE LET rest == Replay(Tail(events))
       IN [received |-> <<Head(events)>> \o rest.received,
           ended |-> rest.ended]

Subscribe(id) ==
  /\ id \in DOMAIN jobs
  /\ Len(streams) < MaxStreams
  /\ LET r == Replay(jobs[id].events)
     IN streams' = Append(streams,
          [job |-> id, received |-> r.received,
           status |-> IF r.ended THEN "ended" ELSE "open"])
  /\ last' = Async
  /\ UNCHANGED <<jobs, queue, running, history, task, emitted>>
  /\ Config

\* req.on("close") before the stream was ended
Disconnect(i) ==
  /\ i \in DOMAIN streams
  /\ streams[i].status = "open"
  /\ streams' = [streams EXCEPT ![i].status = "disconnected"]
  /\ last' = Async
  /\ UNCHANGED <<jobs, queue, running, history, task, emitted>>
  /\ Config

(* ------------------------- request admission --------------------------- *)
ALLOWED_HOSTS == {"127.0.0.1", "localhost"}

OriginA == "http://localhost:5173"

OriginB == "https://app.example.com"

Peers == {"127.0.0.1", "192.168.1.5"}

HostHeaders == {"127.0.0.1:8790", "evil.test:8790"}

\* the Origin header; "" is a missing or an empty header (getOrigin)
Origins == {"", OriginA, OriginB, "https://evil.test"}

\* what express.json meets: no body or well-formed JSON, JSON that does not
\* parse, a body over the 256kb limit
Bodies == {"json", "malformed", "too_large"}

Tokens == {"t1"}

Codes == {"c1"}

NoAuth == [present |-> FALSE, scheme |-> "", token |-> ""]

AuthHeader(scheme, token) ==
  [present |-> TRUE, scheme |-> scheme, token |-> token]

\* !auth: the header is undefined, or `Authorization:` with no value
Falsy(auth) == ~auth.present \/ (auth.scheme = "" /\ auth.token = "")

\* the Authorization header: absent, empty, another scheme, Bearer tokens
AuthHeaders ==
  {NoAuth, AuthHeader("", ""), AuthHeader("Basic", "dXNlcg"),
   AuthHeader("Bearer", ""), AuthHeader("Bearer", "bogus")}
    \cup {AuthHeader(s, t) : s \in {"Bearer", "bearer"}, t \in Tokens}

Route(method, path) == [method |-> method, path |-> path]

PublicRoutes == {Route("GET", "/v1/meta"), Route("POST", "/v1/pair")}

ProtectedRoutes ==
  {Route("GET", "/v1/jobs/:id"), Route("GET", "/v1/jobs/:id/stream"),
   Route("POST", "/v1/jobs/:id/cancel"), Route("POST", "/v1/git/clone"),
   Route("POST", "/v1/git/fetch"), Route("GET", "/v1/git/status"),
   Route("POST", "/v1/os/open"), Route("POST", "/v1/deps/install"),
   Route("GET", "/v1/diagnostics")}

\* requests that match no route: a preflight, a path under /v1 without a
\* handler for the method, a path outside /v1
OtherRoutes ==
  {Route("OPTIONS", "/v1/git/clone"), Route("DELETE", "/v1/meta"),
   Route("GET", "/")}

Routes == PublicRoutes \cup ProtectedRoutes \cup OtherRoutes

\* app.use("/v1", rateLimit(...)): the paths the limiter is mounted on
UnderV1(path) == path # "/"

\* rateLimit max: 300 per window on /v1 and 10 on /v1/pair, scaled down
RATE_MAX == 3
PAIR_RATE_MAX == 2

Capabilities == {"open-terminal", "open-vscode", "deps/install"}

NoArgs ==
  [input |-> "ok", id |-> 0, target |-> "folder", answer |-> "notty",
   step |-> "start", code |-> ""]

NoRequest ==
  [peer |-> "", host |-> "", origin |-> "", body |-> "",
   route |-> Route("", ""), auth |-> NoAuth, args |-> NoArgs]

\* defaultConfig with a second origin on the allowlist
DefaultConfig ==
  [originAllowlist |-> <<OriginA, OriginB>>, workspaceRoot |-> FALSE,
   approvals |-> <<>>]

NoCodes ==
  [o \in {OriginA, OriginB} |-> [code |-> "", expired |-> FALSE]]

NoResponse == [status |-> 0, errorCode |-> "", acao |-> "", fx |-> {}]

isLoopbackAddress(address) ==
  address \in {"127.0.0.1", "::1", "::ffff:127.0.0.1"}

\* req.headers.host?.split(":")[0] for the headers of HostHeaders
Hostname(host) ==
  IF host = "127.0.0.1:8790" THEN "127.0.0.1"
  ELSE IF host = "evil.test:8790" THEN "evil.test"
  ELSE host

(* ----------------------------- TokenStore ------------------------------ *)
\* scryptSync(token, salt): equal exactly for equal token and salt
Scrypt(token, salt) == <<token, salt>>

\* pruneExpired that keeps every entry
pruneNothing(ents) == ents

pruneExpired(ents) == SelectSeq(ents, LAMBDA e : ~e.expired)

FindEntry(ents, origin) ==
  LET mine == SelectSeq(ents, LAMBDA e : e.origin = origin)
  IN IF mine = <<>> THEN <<>> ELSE <<Head(mine)>>

\* getActiveToken without pruneExpired
getActiveTokenUnpruned(ents, origin) == FindEntry(ents, origin)

\* getActiveToken: the origin's entry after pruneExpired, <<>> for undefined
getActiveToken(ents, origin) == FindEntry(pruneExpired(ents), origin)

\* verifyToken that looks at the entries of every origin
verifyTokenAnyOrigin(ents, origin, token) ==
  \E i \in DOMAIN pruneExpired(ents) :
    pruneExpired(ents)[i].tokenHash = Scrypt(token, pruneExpired(ents)[i].salt)

verifyToken(ents, origin, token) ==
  LET found == FindEntry(pruneExpired(ents), origin)
  IN /\ found # <<>>
     /\ found[1].tokenHash = Scrypt(token, found[1].salt)

\* issueToken that pushes without dropping the origin's previous entry
issueTokenKeepsOld(ents, origin, token) ==
  Append(ents,
         [origin |-> origin, tokenHash |-> Scrypt(token, "salt"),
          salt |-> "salt", expired |-> FALSE])

issueToken(ents, origin, token) ==
  Append(SelectSeq(ents, LAMBDA e : e.origin # origin),
         [origin |-> origin, tokenHash |-> Scrypt(token, "salt"),
          salt |-> "salt", expired |-> FALSE])

revokeToken(ents, origin) == SelectSeq(ents, LAMBDA e : e.origin # origin)

(* ------------------------------ approvals ------------------------------ *)
\* A path string is the sequence of its components, an absolute one led by
\* "/"; "" is <<>>.  No component is empty, so <<"">> stands for null.
Null == <<"">>

AbsRoot == <<"/", "ws">>

AbsRepo == <<"/", "ws", "repo">>

\* !value of a string or null
FalsyPath(p) == p = Null \/ p = <<>>

\* path.isAbsolute, of a string
isAbsolute(p) == p # <<>> /\ Head(p) = "/"

\* path.resolve(workspaceRoot, p) of a relative p: lexical, "." stays and
\* ".." drops the last component, never the leading "/"
RECURSIVE ResolveFrom(_, _)
ResolveFrom(cur, rest) ==
  IF rest = <<>> THEN cur
  ELSE IF Head(rest) = "." THEN ResolveFrom(cur, Tail(rest))
  ELSE IF Head(rest) = ".."
  THEN ResolveFrom(IF Len(cur) <= 1 THEN cur
                   ELSE SubSeq(cur, 1, Len(cur) - 1), Tail(rest))
  ELSE ResolveFrom(Append(cur, Head(rest)), Tail(rest))

Includes(capabilities, capability) ==
  \E k \in DOMAIN capabilities : capabilities[k] = capability

\* the callback of entries.some in src/approvals.ts: "true", "false", or
\* the TypeError of path.isAbsolute(null)
entryApproves(entry, origin, repoPath, capability, workspaceRoot) ==
  IF entry.origin # origin \/ ~Includes(entry.capabilities, capability)
  THEN "false"
  ELSE IF entry.repoPath = repoPath THEN "true"
  ELSE IF ~FalsyPath(workspaceRoot)
  THEN IF entry.repoPath = Null THEN "TypeError"
       ELSE IF ~isAbsolute(entry.repoPath)
       THEN IF ResolveFrom(workspaceRoot, entry.repoPath) = repoPath
            THEN "true" ELSE "false"
       ELSE "false"
  ELSE "false"

\* the callback of entries.some in the second copy of the module
entryApprovesWildcard(entry, origin, repoPath, capability, workspaceRoot) ==
  IF entry.origin # origin \/ ~Includes(entry.capabilities, capability)
  THEN "false"
  ELSE IF entry.repoPath = Null \/ entry.repoPath = <<"*">> THEN "true"
  ELSE IF entry.repoPath = repoPath THEN "true"
  ELSE IF /\ ~FalsyPath(workspaceRoot)
          /\ ~FalsyPath(entry.repoPath)
          /\ ~isAbsolute(entry.repoPath)
  THEN IF ResolveFrom(workspaceRoot, entry.repoPath) = repoPath
       THEN "true" ELSE "false"
  ELSE "false"

ApprovalModules == {"src/approvals.ts", "unnamed/part_002"}

\* hasApproval: entries.some stops at the first entry whose callback returns
\* true or throws
hasApproval(module, cfg, origin, repoPath, capability, workspaceRoot) ==
  LET out == [i \in DOMAIN cfg.approvals |->
                IF module = "src/approvals.ts"
                THEN entryApproves(cfg.approvals[i], origin, repoPath,
                                   capability, workspaceRoot)
                ELSE entryApprovesWildcard(cfg.approvals[i], origin, repoPath,
                                           capability, workspaceRoot)]
      stop == {i \in DOMAIN out : out[i] # "false"}
  IN IF stop = {} THEN "false"
     ELSE out[CHOOSE i \in stop : \A j \in stop : i <= j]

\* requireApproval that never throws capabilityNotGranted
requireApprovalLax(module, cfg, origin, repoPath, capability, workspaceRoot) ==
  LET has == hasApproval(module, cfg, origin, repoPath, capability,
                         workspaceRoot)
  IN IF has = "TypeError" THEN has ELSE "ok"

\* requireApproval: "ok", or the error it throws
requireApproval(module, cfg, origin, repoPath, capability, workspaceRoot) ==
  LET has == hasApproval(module, cfg, origin, repoPath, capability,
                         workspaceRoot)
  IN IF has = "true" THEN "ok"
     ELSE IF has = "false" THEN "capability_not_granted"
     ELSE has

\* upsertOriginApproval that pushes a new entry every time
upsertAlwaysPush(cfg, origin, capability) ==
  [cfg EXCEPT !.approvals =
     Append(@, [origin |-> origin, repoPath |-> Null,
                capabilities |-> <<capability>>])]

upsertOriginApproval(cfg, origin, capability) ==
  LET hit == {i \in DOMAIN cfg.approvals :
                /\ cfg.approvals[i].origin = origin
                /\ cfg.approvals[i].repoPath \in {Null, <<"*">>}}
  IN IF hit # {}
     THEN LET i == CHOOSE k \in hit : \A j \in hit : k <= j
          IN IF Includes(cfg.approvals[i].capabilities, capability)
             THEN cfg
             ELSE [cfg EXCEPT !.approvals[i].capabilities =
                     Append(@, capability)]
     ELSE [cfg EXCEPT !.approvals =
             Append(@, [origin |-> origin, repoPath |-> Null,
                        capabilities |-> <<capability>>])]

(* ------------------------------ createApp ------------------------------ *)
\* the daemon's state as one value: ctx
Ctx ==
  [m |-> Mgr, config |-> config, linked |-> linked, entries |-> entries,
   codes |-> codes, hits |-> hits]

\* a reply: the state the request leaves behind and the response
Reply(d, status, errorCode, acao, fx) ==
  [d |-> d,
   res |-> [status |-> status, errorCode |-> errorCode, acao |-> acao,
            fx |-> fx]]

\* what ensureApproval hands back: whether the handler goes on, the error
\* response if it does not, the state and the effects
Approved(d, fx) ==
  [ok |-> TRUE, status |-> 0, errorCode |-> "", d |-> d, fx |-> fx]

Refused(d, error, fx) ==
  [ok |-> FALSE,
   status |-> IF error = "capability_not_granted" THEN 409 ELSE 500,
   errorCode |-> IF error = "capability_not_granted" THEN error
                 ELSE "internal_error",
   d |-> d, fx |-> fx]

\* ensureApproval, run without another request in between: requireApproval
\* meets the config that hasApproval has just seen
ensureApproval(d, origin, capability, answer) ==
  LET has == hasApproval(d.linked, d.config, origin, AbsRepo, capability,
                         AbsRoot)
      error == IF has = "false" THEN "capability_not_granted" ELSE has
  IN IF has = "true" THEN Approved(d, {})
     ELSE IF has # "false" THEN Refused(d, error, {})
     ELSE IF answer = "notty" THEN Refused(d, error, {})
     ELSE IF answer # "yes" THEN Refused(d, error, {"prompt"})
     ELSE Approved([d EXCEPT !.config =
                      upsertOriginApproval(@, origin, capability)],
                   {"prompt", "saveConfig"})

\* the shared failures with ensureWorkspaceRoot left out
PathFailureAnyRoot(d, input) ==
  IF input = "bad_url" THEN <<422, "invalid_repo_url">>
  ELSE IF input = "bad_schema" THEN <<422, "internal_error">>
  ELSE IF input = "outside" THEN <<409, "path_outside_workspace">>
  ELSE IF input = "missing" THEN <<404, "internal_error">>
  ELSE IF input = "exists" THEN <<409, "internal_error">>
  ELSE IF input = "no_package" THEN <<404, "internal_error">>
  ELSE <<>>

\* the failures every path-taking handler shares: parseBody,
\* ensureWorkspaceRoot, resolveInsideWorkspace; "" when they all pass
PathFailure(d, input) ==
  IF input = "bad_url" THEN <<422, "invalid_repo_url">>
  ELSE IF input = "bad_schema" THEN <<422, "internal_error">>
  ELSE IF ~d.config.workspaceRoot THEN <<409, "workspace_required">>
  ELSE IF input = "outside" THEN <<409, "path_outside_workspace">>
  ELSE IF input = "missing" THEN <<404, "internal_error">>
  ELSE IF input = "exists" THEN <<409, "internal_error">>
  ELSE IF input = "no_package" THEN <<404, "internal_error">>
  ELSE <<>>

EnqueueJob(d, acao, fx) ==
  Reply([d EXCEPT !.m = EnqueueOp(@)], 202, "", acao, fx \cup {"jobs.enqueue"})

(* --------------------------- PairingManager ---------------------------- *)
\* start: codes.set(origin, { code, expiresAt })
PairingStart(cds, origin, code) ==
  [cds EXCEPT ![origin] = [code |-> code, expired |-> FALSE]]

\* confirm with the test of expiresAt left out
ConfirmAcceptsExpired(cds, origin, code) ==
  /\ cds[origin].code # ""
  /\ cds[origin].code = code

\* confirm: the entry exists, carries the code and has not expired
ConfirmAccepts(cds, origin, code) ==
  /\ cds[origin].code # ""
  /\ cds[origin].code = code
  /\ ~cds[origin].expired

\* confirm that leaves the code in the map
ConfirmKeepsCode(cds, origin) == cds

\* confirm: codes.delete(origin)
ConfirmConsume(cds, origin) ==
  [cds EXCEPT ![origin] = [code |-> "", expired |-> FALSE]]

\* POST /v1/pair
PairHandler(d, r, acao, fx, code, token) ==
  IF r.args.input = "bad_schema"
  THEN Reply(d, 422, "internal_error", acao, fx)
  ELSE IF r.args.step = "start"
  THEN Reply([d EXCEPT !.codes = PairingStart(@, r.origin, code)],
             200, "", acao, fx \cup {"pairing.start"})
  ELSE IF ~ConfirmAccepts(d.codes, r.origin, r.args.code)
  THEN Reply(d, 422, "internal_error", acao, fx)
  ELSE Reply([d EXCEPT !.codes = ConfirmConsume(@, r.origin),
                       !.entries = issueToken(@, r.origin, token)],
             200, "", acao, fx \cup {"issueToken"})

\* the handlers behind authGuard
RouteHandler(d, r, acao, fx0) ==
  LET path == r.route.path
      fx == fx0 \cup {"handler"}
      fail == PathFailure(d, r.args.input)
  IN IF path \in {"/v1/jobs/:id", "/v1/jobs/:id/stream", "/v1/jobs/:id/cancel"}
            /\ get(d.m, r.args.id) = <<>>
     THEN Reply(d, 404, "job_not_found", acao, fx \cup {"jobs.get"})
     ELSE IF path = "/v1/jobs/:id"
     THEN Reply(d, 200, "", acao, fx \cup {"jobs.get"})
     ELSE IF path = "/v1/jobs/:id/stream"
     THEN LET rp == Replay(d.m.jobs[r.args.id].events)
          IN Reply([d EXCEPT !.m.streams =
                      Append(@, [job |-> r.args.id, received |-> rp.received,
                                 status |-> IF rp.ended THEN "ended"
                                            ELSE "open"])],
                   200, "", acao, fx \cup {"jobs.get", "stream"})
     ELSE IF path = "/v1/jobs/:id/cancel"
     THEN IF d.m.jobs[r.args.id].state \notin {"queued", "running"}
          THEN Reply(d, 409, "internal_error", acao, fx \cup {"jobs.get"})
          ELSE Reply([d EXCEPT !.m = CancelOp(@, r.args.id).m], 200, "", acao,
                     fx \cup {"jobs.get", "jobs.cancel"})
     ELSE IF path = "/v1/diagnostics"
     THEN Reply(d, 200, "", acao, fx \cup {"jobs.listRecent"})
     ELSE IF fail # <<>>
     THEN Reply(d, fail[1], fail[2], acao, fx)
     ELSE IF path = "/v1/git/clone"
     THEN EnqueueJob(d, acao, fx \cup {"mkdir"})
     ELSE IF path = "/v1/git/fetch"
     THEN EnqueueJob(d, acao, fx)
     ELSE IF path = "/v1/git/status"
     THEN Reply(d, 200, "", acao, fx \cup {"spawn"})
     ELSE IF path = "/v1/os/open"
     THEN LET ap == IF r.args.target = "folder"
                    THEN Approved(d, {})
                    ELSE ensureApproval(d, r.origin,
                           IF r.args.target = "terminal" THEN "open-terminal"
                           ELSE "open-vscode", r.args.answer)
          IN IF ap.ok
             THEN Reply(ap.d, 200, "", acao, fx \cup ap.fx \cup {"spawn"})
             ELSE Reply(ap.d, ap.status, ap.errorCode, acao,
                        fx \cup ap.fx)
     ELSE LET ap == ensureApproval(d, r.origin, "deps/install", r.args.answer)
          IN IF ap.ok
             THEN EnqueueJob(ap.d, acao, fx \cup ap.fx)
             ELSE Reply(ap.d, ap.status, ap.errorCode, acao,
                        fx \cup ap.fx)

\* auth.match(/^Bearer (.+)$/i)
MatchesBearer(auth) ==
  auth.scheme \in {"Bearer", "bearer"} /\ auth.token # ""

\* authGuard with a missing header let through to the handler
authGuardLax(d, r, acao, fx) ==
  IF Falsy(r.auth)
  THEN RouteHandler(d, r, acao, fx)
  ELSE IF ~MatchesBearer(r.auth)
  THEN Reply(d, 401, "auth_invalid", acao, fx)
  ELSE LET pruned == [d EXCEPT !.entries = pruneExpired(@)]
       IN IF ~verifyToken(d.entries, r.origin, r.auth.token)
          THEN Reply(pruned, 401, "auth_invalid", acao, fx \cup {"verifyToken"})
          ELSE RouteHandler(pruned, r, acao, fx \cup {"verifyToken"})

\* authGuard
authGuard(d, r, acao, fx) ==
  IF Falsy(r.auth)
  THEN Reply(d, 401, "auth_required", acao, fx)
  ELSE IF ~MatchesBearer(r.auth)
  THEN Reply(d, 401, "auth_invalid", acao, fx)
  ELSE LET pruned == [d EXCEPT !.entries = pruneExpired(@)]
       IN IF ~verifyToken(d.entries, r.origin, r.auth.token)
          THEN Reply(pruned, 401, "auth_invalid", acao, fx \cup {"verifyToken"})
          ELSE RouteHandler(pruned, r, acao, fx \cup {"verifyToken"})

\* the routes, behind the limiter mounted on /v1
Router(d, r, acao, code, token) ==
  IF ~UnderV1(r.route.path)
  THEN Reply(d, 404, "", acao, {})
  ELSE LET d1 == [d EXCEPT !.hits.global = @ + 1]
           fx == {"rateLimit"}
       IN IF d1.hits.global > RATE_MAX
          THEN Reply(d1, 429, "rate_limited", acao, fx)
          ELSE IF r.route = Route("GET", "/v1/meta")
          THEN Reply([d1 EXCEPT !.entries = pruneExpired(@)], 200, "", acao,
                     fx \cup {"getActiveToken"})
          ELSE IF r.route = Route("POST", "/v1/pair")
          THEN LET d2 == [d1 EXCEPT !.hits.pair = @ + 1]
               IN IF d2.hits.pair > PAIR_RATE_MAX
                  THEN Reply(d2, 429, "rate_limited", acao,
                             fx \cup {"pairRateLimit"})
                  ELSE PairHandler(d2, r, acao, fx \cup {"pairRateLimit"},
                                   code, token)
          ELSE IF r.route \in ProtectedRoutes
          THEN authGuard(d1, r, acao, fx)
          ELSE Reply(d1, 404, "", acao, fx)

\* originGuard that hands an OPTIONS request on to the routes
originGuardNoPreflight(d, r, code, token) ==
  IF r.origin = "" \/ \A i \in DOMAIN d.config.originAllowlist :
                         d.config.originAllowlist[i] # r.origin
  THEN Reply(d, 403, "origin_not_allowed", "", {})
  ELSE Router(d, r, r.origin, code, token)

\* originGuard
originGuard(d, r, code, token) ==
  IF r.origin = "" \/ \A i \in DOMAIN d.config.originAllowlist :
                         d.config.originAllowlist[i] # r.origin
  THEN Reply(d, 403, "origin_not_allowed", "", {})
  ELSE IF r.route.method = "OPTIONS"
  THEN Reply(d, 204, "", r.origin, {})
  ELSE Router(d, r, r.origin, code, token)

\* hostGuard mounted behind the limiter of /v1
hostGuardBehindLimiter(d, r, code, token) ==
  IF Hostname(r.host) = "" \/ Hostname(r.host) \notin ALLOWED_HOSTS
  THEN Reply([d EXCEPT !.hits.global = @ + 1], 403, "origin_not_allowed", "",
             {"rateLimit"})
  ELSE originGuard(d, r, code, token)

\* hostGuard
hostGuard(d, r, code, token) ==
  IF Hostname(r.host) = "" \/ Hostname(r.host) \notin ALLOWED_HOSTS
  THEN Reply(d, 403, "origin_not_allowed", "", {})
  ELSE originGuard(d, r, code, token)

\* loopbackGuard
loopbackGuard(d, r, code, token) ==
  IF ~isLoopbackAddress(r.peer)
  THEN Reply(d, 403, "origin_not_allowed", "", {})
  ELSE hostGuard(d, r, code, token)

\* express.json({ limit: "256kb" }) and, for its errors, the error handler
jsonParser(d, r, code, token) ==
  IF r.body = "too_large"
  THEN Reply(d, 413, "request_too_large", "", {})
  ELSE IF r.body = "malformed"
  THEN Reply(d, 500, "internal_error", "", {})
  ELSE loopbackGuard(d, r, code, token)

\* the middleware chain of createApp, in the order of its app.use calls
App(d, r, code, token) == jsonParser(d, r, code, token)

(* --------------------------- HTTP requests ----------------------------- *)
\* what the handler's validation and the file system make of the request:
\* the outcomes of parseBody, resolveInsideWorkspace, fs.access, fs.stat
Inputs(path) ==
  IF path = "/v1/git/clone"
  THEN {"ok", "bad_schema", "bad_url", "outside", "exists"}
  ELSE IF path \in {"/v1/git/fetch", "/v1/git/status", "/v1/os/open"}
  THEN {"ok", "bad_schema", "outside", "missing"}
  ELSE IF path = "/v1/deps/install"
  THEN {"ok", "bad_schema", "outside", "missing", "no_package"}
  ELSE IF path = "/v1/pair" THEN {"ok", "bad_schema"}
  ELSE {"ok"}

\* the operator's answer to promptApproval; notty: no prompt can be opened
Answers == {"yes", "no", "notty"}

\* the parts of a request its handler reads beyond the headers
ArgsFor(route, ids) ==
  LET path == route.path
  IN IF route = Route("POST", "/v1/pair")
     THEN {[NoArgs EXCEPT !.input = "bad_schema"],
           [NoArgs EXCEPT !.step = "start"]}
            \cup {[NoArgs EXCEPT !.step = "confirm", !.code = c] :
                    c \in Codes \cup {"zz"}}
     ELSE IF path \in {"/v1/jobs/:id", "/v1/jobs/:id/stream",
                       "/v1/jobs/:id/cancel"}
     THEN {[NoArgs EXCEPT !.id = i] : i \in ids}
     ELSE IF path = "/v1/os/open"
     THEN {[NoArgs EXCEPT !.input = i] : i \in Inputs(path) \ {"ok"}}
            \cup {[NoArgs EXCEPT !.target = t, !.answer = a] :
                    t \in {"terminal", "vscode"}, a \in Answers}
            \cup {NoArgs}
     ELSE IF path = "/v1/deps/install"
     THEN {[NoArgs EXCEPT !.input = i] : i \in Inputs(path) \ {"ok"}}
            \cup {[NoArgs EXCEPT !.answer = a] : a \in Answers}
     ELSE {[NoArgs EXCEPT !.input = i] : i \in Inputs(path)}

\* how many of the four things the guards look at are wrong
Faults(peer, host, origin, body) ==
  (IF isLoopbackAddress(peer) THEN 0 ELSE 1)
    + (IF Hostname(host) \in ALLOWED_HOSTS THEN 0 ELSE 1)
    + (IF origin \in {OriginA, OriginB} THEN 0 ELSE 1)
    + (IF body = "json" THEN 0 ELSE 1)

\* a request arrives.  Peer, Host, Origin and body are tried on every route,
\* up to MaxFaults of them wrong at once; the Authorization headers are
\* varied in full on the requests a browser page of an allowlisted origin can
\* send, and the arguments on those of them that go to a public route or
\* carry `Bearer` and a token of the store.  The other requests come without
\* a header and, to the routes behind authGuard, also with the token.
Receive ==
  /\ req = NoRequest
  /\ hits.global <= RATE_MAX
  /\ \E peer \in Peers, host \in HostHeaders, origin \in Origins,
        body \in Bodies, route \in Routes :
       LET faults == Faults(peer, host, origin, body)
           wellFormed == faults = 0
       IN /\ faults <= MaxFaults
          /\ \E auth \in IF wellFormed THEN AuthHeaders
                          ELSE IF route \in ProtectedRoutes /\ body = "json"
                          THEN {NoAuth, AuthHeader("Bearer", "t1")}
                          ELSE {NoAuth} :
               \E args \in IF /\ wellFormed
                               /\ \/ route \in PublicRoutes
                                  \/ /\ auth.scheme = "Bearer"
                                     /\ auth.token \in Tokens
                            THEN ArgsFor(route, 0..Len(jobs))
                            ELSE {NoArgs} :
                 req' = [peer |-> peer, host |-> host, origin |-> origin,
                         body |-> body, route |-> route, auth |-> auth,
                         args |-> args]
  /\ UNCHANGED <<jobVars, config, linked, entries, codes, hits, res, callVars>>

\* the request runs through createApp to its response
Handle ==
  /\ req # NoRequest
  /\ res = NoResponse
  /\ \E code \in Codes, token \in Tokens :
       LET rp == App(Ctx, req, code, token)
       IN /\ Commit(rp.d.m)
          /\ config' = rp.d.config
          /\ entries' = rp.d.entries
          /\ codes' = rp.d.codes
          /\ hits' = rp.d.hits
          /\ res' = rp.res
  /\ last' = Async
  /\ UNCHANGED <<maxConcurrent, timeoutMs, linked, req, callVars>>

\* the response has been sent
Respond ==
  /\ res # NoResponse
  /\ req' = NoRequest
  /\ res' = NoResponse
  /\ UNCHANGED <<jobVars, config, linked, entries, codes, hits, callVars>>

\* Date.now() passes the expiresAt of a token
TokenExpires ==
  /\ req = NoRequest
  /\ \E i \in DOMAIN entries :
       /\ ~entries[i].expired
       /\ entries' = [entries EXCEPT ![i].expired = TRUE]
       /\ hist' = [hist EXCEPT !.issued =
            [k \in DOMAIN @ |->
               IF /\ @[k].origin = entries[i].origin
                  /\ Scrypt(@[k].token, entries[i].salt) = entries[i].tokenHash
                  /\ @[k].status = "live"
               THEN [@[k] EXCEPT !.status = "expired"]
               ELSE @[k]]]
  /\ UNCHANGED <<jobVars, config, linked, codes, hits, req, res, pending, call>>

\* Date.now() passes the expiresAt of a pairing code
CodeExpires ==
  /\ req = NoRequest
  /\ \E o \in DOMAIN codes :
       /\ codes[o].code # ""
       /\ ~codes[o].expired
       /\ codes' = [codes EXCEPT ![o].expired = TRUE]
  /\ UNCHANGED <<jobVars, config, linked, entries, hits, req, res, callVars>>

(* ------------------------------ workspace ------------------------------ *)
\* A path is the sequence of its components, <<>> being "/".  A layout has
\* the directories that exist and the symlinks with their targets.
WsRoot == <<"ws">>

\* the result of fs.realpath on a path with a missing component
ENOENT == <<"ENOENT">>

\* fs.realpath: follow every symlink; ENOENT when a component or the target
\* of a symlink does not exist
RECURSIVE Walk(_, _, _)
Walk(layout, cur, rest) ==
  IF rest = <<>> THEN cur
  ELSE LET nxt == Append(cur, Head(rest))
       IN IF nxt \in DOMAIN layout.links
          THEN IF layout.links[nxt] \in layout.dirs
               THEN Walk(layout, layout.links[nxt], Tail(rest))
               ELSE ENOENT
          ELSE IF nxt \in layout.dirs
          THEN Walk(layout, nxt, Tail(rest))
          ELSE ENOENT

realpathSafe(layout, target) == Walk(layout, <<>>, target)

\* path.resolve: lexical, ".." drops the last component
RECURSIVE Normalize(_, _)
Normalize(cur, rest) ==
  IF rest = <<>> THEN cur
  ELSE IF Head(rest) = ".."
  THEN Normalize(IF cur = <<>> THEN cur ELSE SubSeq(cur, 1, Len(cur) - 1),
                 Tail(rest))
  ELSE Normalize(Append(cur, Head(rest)), Tail(rest))

PathResolve(base, candidate) ==
  Normalize(IF candidate.abs THEN <<>> ELSE base, candidate.parts)

\* String.startsWith("..") on a file name
StartsWithDotDot(name) == name \in {"..", "..x"}

IsPrefix(root, target) ==
  Len(target) >= Len(root) /\ SubSeq(target, 1, Len(root)) = root

\* isInside: path.relative(root, candidate) is "" or does not start with ".."
isInside(root, candidate) ==
  IF candidate = root THEN TRUE
  ELSE IF ~IsPrefix(root, candidate) THEN FALSE
  ELSE ~StartsWithDotDot(candidate[Len(root) + 1])

Returned(target) == [kind |-> "path", path |-> target]

Thrown(kind) == [kind |-> kind, path |-> <<>>]

resolveInsideWorkspace(layout, workspaceRoot, candidate, allowMissing) ==
  IF candidate.tooLong THEN Thrown("path_outside_workspace")
  ELSE LET rootReal == realpathSafe(layout, workspaceRoot)
           resolved == PathResolve(rootReal, candidate)
           realResolved == realpathSafe(layout, resolved)
           parent == SubSeq(resolved, 1, Len(resolved) - 1)
           parentReal == realpathSafe(layout, parent)
       IN IF ~isInside(rootReal, resolved)
          THEN Thrown("path_outside_workspace")
          ELSE IF realResolved # ENOENT
          THEN IF ~isInside(rootReal, realResolved)
               THEN Thrown("path_outside_workspace")
               ELSE Returned(realResolved)
          ELSE IF ~allowMissing
          THEN Thrown("MissingPathError")
          ELSE IF parentReal # ENOENT /\ ~isInside(rootReal, parentReal)
          THEN Thrown("path_outside_workspace")
          ELSE Returned(resolved)

\* the layouts tried: the root and a directory outside it, a symlink to the
\* root, optional directories, and ws/l a symlink to a directory outside,
\* to one inside, to nothing, or absent
Dirs == {<<>>, WsRoot, <<"out">>}

OptionalDirs == {<<"ws", "a">>, <<"out", "a">>, <<"ws", "..x">>}

LinkTargets == {<<"out">>, <<"ws", "a">>, <<"out", "gone">>}

Layouts ==
  {[dirs |-> Dirs \cup d, links |-> (<<"home">> :> WsRoot)] :
     d \in SUBSET OptionalDirs}
    \cup {[dirs |-> Dirs \cup d,
           links |-> (<<"home">> :> WsRoot) @@ (<<"ws", "l">> :> t)] :
            d \in SUBSET OptionalDirs, t \in LinkTargets}

Names == {"a", "l", "..", "..x", "ws"}

RECURSIVE PathsUpTo(_)
PathsUpTo(n) ==
  IF n = 0 THEN {<<>>}
  ELSE LET shorter == PathsUpTo(n - 1)
       IN shorter \cup {Append(q, c) : q \in shorter, c \in Names}

Candidates ==
  {[abs |-> a, parts |-> q, tooLong |-> FALSE] :
     a \in BOOLEAN, q \in PathsUpTo(MaxDepth)}
    \cup {[abs |-> FALSE, parts |-> <<"a">>, tooLong |-> TRUE]}

\* a handler calls resolveInsideWorkspace
ResolveCall ==
  /\ call.op = "input"
  /\ call' = [call EXCEPT
       !.op = "resolveInsideWorkspace",
       !.out = resolveInsideWorkspace(call.layout, call.workspaceRoot,
                                      call.candidate, call.allowMissing)]
  /\ UNCHANGED <<jobVars, httpVars, pending, hist>>

(* ------------------------- POST /v1/git/clone -------------------------- *)
\* A repoUrl is the sequence of its characters; a scheme, when there is one,
\* is the first element.  "\n" stands for the line terminators that the
\* regular expressions' "." does not match.
Schemes == {"file://", "https://", "ssh://", "git@", "http://"}

UrlChars == {"a", "/", ":", ".", "\n"}

\* String.startsWith
StartsWith(value, prefix) ==
  Len(value) >= Len(prefix) /\ SubSeq(value, 1, Len(prefix)) = prefix

\* the index of the first sep in rest, 0 if there is none
FirstIndex(rest, sep) ==
  IF \E i \in DOMAIN rest : rest[i] = sep
  THEN CHOOSE i \in DOMAIN rest :
         rest[i] = sep /\ \A k \in 1..(i - 1) : rest[k] # sep
  ELSE 0

\* /^<scheme>[^<sep>]+<sep>.+/ on what follows the scheme
MatchesForm(rest, sep) ==
  LET i == FirstIndex(rest, sep)
  IN i > 1 /\ i < Len(rest) /\ rest[i + 1] # "\n"

\* the three tests of isValidRepoUrl that return true
MatchesSomeForm(value) ==
  /\ value # <<>>
  /\ \/ Head(value) = "git@" /\ MatchesForm(Tail(value), ":")
     \/ Head(value) = "https://" /\ MatchesForm(Tail(value), "/")
     \/ Head(value) = "ssh://" /\ MatchesForm(Tail(value), "/")

\* isValidRepoUrl that looks at the scheme alone
isValidRepoUrlByScheme(value) ==
  IF StartsWith(value, <<"file://">>) THEN FALSE
  ELSE IF \/ StartsWith(value, <<"/">>)
          \/ StartsWith(value, <<".", "/">>)
          \/ StartsWith(value, <<".", ".", "/">>)
  THEN FALSE
  ELSE value # <<>> /\ Head(value) \in {"git@", "https://", "ssh://"}

isValidRepoUrl(value) ==
  IF StartsWith(value, <<"file://">>) THEN FALSE
  ELSE IF \/ StartsWith(value, <<"/">>)
          \/ StartsWith(value, <<".", "/">>)
          \/ StartsWith(value, <<".", ".", "/">>)
  THEN FALSE
  ELSE MatchesSomeForm(value)

\* path.normalize on a relative path: ".." cancels the component before it
\* and stays when there is none; <<>> is "."
RECURSIVE NormalizeRelative(_, _)
NormalizeRelative(cur, rest) ==
  IF rest = <<>> THEN cur
  ELSE IF Head(rest) = ".." /\ cur # <<>> /\ cur[Len(cur)] # ".."
  THEN NormalizeRelative(SubSeq(cur, 1, Len(cur) - 1), Tail(rest))
  ELSE NormalizeRelative(Append(cur, Head(rest)), Tail(rest))

\* ensureRelative without the test for "."
ensureRelativeAllowsDot(target) ==
  IF target.abs THEN FALSE
  ELSE LET normalized == NormalizeRelative(<<>>, target.parts)
       IN ~(normalized # <<>> /\ StartsWithDotDot(normalized[1]))

\* ensureRelative: TRUE when it returns, FALSE when it throws
\* pathOutsideWorkspace
ensureRelative(target) ==
  IF target.abs THEN FALSE
  ELSE LET normalized == NormalizeRelative(<<>>, target.parts)
       IN ~(normalized = <<>> \/ StartsWithDotDot(normalized[1]))

\* gitCloneRequestSchema: repoUrl refined by isValidRepoUrl; destRelative a
\* string of 1 to MAX_PATH_LENGTH characters (blank: the empty string)
RepoUrlIssue(body) == body.repoUrl = <<>> \/ ~isValidRepoUrl(body.repoUrl)

DestIssue(body) == body.blank \/ body.destRelative.tooLong

\* what the clone handler's checks make of a body, in the handler's order:
\* parseBody, ensureRelative, resolveInsideWorkspace, fs.access
CloneInput(layout, body) ==
  IF RepoUrlIssue(body) THEN "bad_url"
  ELSE IF DestIssue(body) THEN "bad_schema"
  ELSE IF ~ensureRelative(body.destRelative) THEN "outside"
  ELSE LET destPath == resolveInsideWorkspace(layout, WsRoot,
                                              body.destRelative, TRUE)
       IN IF destPath.kind # "path" THEN "outside"
          ELSE IF realpathSafe(layout, destPath.path) # ENOENT THEN "exists"
          ELSE "ok"

GoodUrl == <<"https://", "a", "/", "a">>

FileUrl == <<"file://", "/", "a">>

RECURSIVE UrlTails(_)
UrlTails(n) ==
  IF n = 0 THEN {<<>>}
  ELSE LET shorter == UrlTails(n - 1)
       IN shorter \cup {Append(q, c) : q \in shorter, c \in UrlChars}

Urls ==
  UrlTails(MaxUrl) \cup {<<sch>> \o q : sch \in Schemes, q \in UrlTails(MaxUrl)}

PlainLayout == [dirs |-> Dirs, links |-> (<<"home">> :> WsRoot)]

NewDest == [abs |-> FALSE, parts |-> <<"a">>, tooLong |-> FALSE]

\* a request as the handler finds it, and the directories on the disk
CloneRequest(layout, repoUrl, blank, destRelative) ==
  [op |-> "request", layout |-> layout,
   body |-> [repoUrl |-> repoUrl, blank |-> blank,
             destRelative |-> destRelative],
   out |-> NoResponse]

\* the handler of POST /v1/git/clone, for a request that authGuard let through
CloneCall ==
  /\ call.op = "request"
  /\ LET input == CloneInput(call.layout, call.body)
         r == [NoRequest EXCEPT !.route = Route("POST", "/v1/git/clone"),
                                !.origin = OriginA, !.body = "json",
                                !.args = [NoArgs EXCEPT !.input = input]]
         rp == RouteHandler(Ctx, r, OriginA, {})
     IN /\ Commit(rp.d.m)
        /\ call' = [call EXCEPT !.op = "POST /v1/git/clone", !.out = rp.res]
  /\ last' = Async
  /\ UNCHANGED <<maxConcurrent, timeoutMs, httpVars, pending, hist>>

\* the runners of the accepted clone jobs: cloneRepo with the destRelative
\* of its request, and the directories on the disk
CloneJob(id, destRelative) ==
  [op |-> "cloneRepo", job |-> id, destRelative |-> destRelative]

OtherDest == [abs |-> FALSE, parts |-> <<"b">>, tooLong |-> FALSE]

\* POST /v1/git/clone for destRelative, behind authGuard: the destination is
\* looked for on the disk, the job enqueued and 202 answered
CloneAccept(destRelative) ==
  /\ Len(jobs) < MaxJobs
  /\ LET body == [repoUrl |-> GoodUrl, blank |-> FALSE,
                  destRelative |-> destRelative]
         input == CloneInput(call.layout, body)
         r == [NoRequest EXCEPT !.route = Route("POST", "/v1/git/clone"),
                                !.origin = OriginA, !.body = "json",
                                !.args = [NoArgs EXCEPT !.input = input]]
         rp == RouteHandler(Ctx, r, OriginA, {})
     IN /\ Commit(rp.d.m)
        /\ call' = [call EXCEPT !.op = "POST /v1/git/clone", !.body = body,
                                !.out = rp.res]
        /\ pending' = IF rp.res.status = 202
                      THEN Append(pending,
                                  CloneJob(Len(jobs) + 1, destRelative))
                      ELSE pending
  /\ last' = Async
  /\ UNCHANGED <<maxConcurrent, timeoutMs, httpVars, hist>>

\* cloneRepo of a started job: git clone, spawned by runCommand, creates the
\* destination directory
GitCreatesDest(i) ==
  /\ i \in DOMAIN pending
  /\ pending[i].op = "cloneRepo"
  /\ task[pending[i].job].runner = "spawned"
  /\ LET destPath == resolveInsideWorkspace(call.layout, WsRoot,
                                            pending[i].destRelative, TRUE)
     IN /\ destPath.kind = "path"
        /\ destPath.path \notin call.layout.dirs
        /\ call' = [call EXCEPT !.layout.dirs = @ \cup {destPath.path}]
  /\ UNCHANGED <<jobVars, httpVars, pending, hist>>

(* --------------------------- deps/install ------------------------------ *)
\* the files of the repository that the installer looks for
LockFiles == {"pnpm-lock.yaml", "yarn.lock", "package-lock.json"}

RepoFiles == LockFiles \cup {".yarnrc.yml"}

\* fileExists: fs.access succeeds
fileExists(files, name) == name \in files

\* hasAnyLockfile
hasAnyLockfile(files) ==
  \/ fileExists(files, "pnpm-lock.yaml")
  \/ fileExists(files, "yarn.lock")
  \/ fileExists(files, "package-lock.json")

\* buildInstallCommand
buildInstallCommand(files, manager, mode, safer) ==
  LET lockfileExists == hasAnyLockfile(files)
      useCi == mode = "ci" \/ (mode = "auto" /\ lockfileExists)
      scripts == IF safer THEN <<"--ignore-scripts">> ELSE <<>>
  IN IF manager = "pnpm"
     THEN [command |-> "pnpm",
           args |-> <<"install">>
                      \o (IF useCi THEN <<"--frozen-lockfile">> ELSE <<>>)
                      \o scripts]
     ELSE IF manager = "yarn"
     THEN LET isBerry == fileExists(files, ".yarnrc.yml")
          IN [command |-> "yarn",
              args |-> <<"install">>
                         \o (IF useCi \/ isBerry THEN <<"--immutable">>
                             ELSE <<>>)
                         \o scripts]
     ELSE [command |-> "npm",
           args |-> <<IF useCi THEN "ci" ELSE "install">> \o scripts]

\* installDeps builds the command for the manager it selected
BuildCall ==
  /\ call.op = "input"
  /\ call' = [call EXCEPT
       !.op = "buildInstallCommand",
       !.out = buildInstallCommand(call.files, call.manager, call.mode,
                                   call.safer)]
  /\ UNCHANGED <<jobVars, httpVars, pending, hist>>

(* ------------------------- pairing, call by call ----------------------- *)
PairCodes == {"c1", "c2"}

AllowedOrigins == {OriginA, OriginB}

\* the start of origin most recently recorded in the history, 0 if none
LastStart(starts, origin) ==
  IF \E i \in DOMAIN starts : starts[i].origin = origin
  THEN CHOOSE i \in DOMAIN starts :
         /\ starts[i].origin = origin
         /\ \A k \in DOMAIN starts : starts[k].origin = origin => k <= i
  ELSE 0

\* PairingManager.start(origin)
Start(origin) ==
  /\ Len(hist.starts) < MaxStarts
  /\ \E code \in PairCodes :
       /\ codes' = PairingStart(codes, origin, code)
       /\ hist' = [hist EXCEPT !.starts =
                     Append(@, [origin |-> origin, code |-> code,
                                issued |-> 0, returned |-> 0])]
       /\ call' = [op |-> "start", origin |-> origin, code |-> code,
                   out |-> "code"]
  /\ UNCHANGED <<jobVars, config, linked, entries, hits, req, res, pending>>

\* PairingManager.confirm(origin, code) up to `await this.save()` in
\* issueToken: a refused confirm returns at once, an accepted one has
\* consumed the code and replaced the origin's token when it is suspended
ConfirmBegin(origin, code) ==
  /\ hist.confirms < MaxConfirms
  /\ IF ~ConfirmAccepts(codes, origin, code)
     THEN /\ call' = [op |-> "confirm", origin |-> origin, code |-> code,
                      out |-> "null"]
          /\ hist' = [hist EXCEPT !.confirms = @ + 1]
          /\ UNCHANGED <<codes, entries, pending>>
     ELSE \E token \in Tokens :
            /\ codes' = ConfirmConsume(codes, origin)
            /\ entries' = issueToken(entries, origin, token)
            /\ pending' = Append(pending,
                 [op |-> "confirm", origin |-> origin, code |-> code,
                  token |-> token, start |-> LastStart(hist.starts, origin)])
            /\ hist' = [hist EXCEPT
                 !.confirms = @ + 1,
                 !.starts[LastStart(hist.starts, origin)].issued = @ + 1]
            /\ call' = [op |-> "confirm.await", origin |-> origin,
                        code |-> code, out |-> "pending"]
  /\ UNCHANGED <<jobVars, config, linked, hits, req, res>>

\* tokens.json is written: confirm returns the token
ConfirmEnd(i) ==
  /\ i \in DOMAIN pending
  /\ pending[i].op = "confirm"
  /\ pending' = RemoveAt(pending, i)
  /\ call' = [op |-> "confirm", origin |-> pending[i].origin,
              code |-> pending[i].code, out |-> pending[i].token]
  /\ hist' = [hist EXCEPT !.starts[pending[i].start].returned = @ + 1]
  /\ UNCHANGED <<jobVars, httpVars>>

\* fs.writeFile fails: issueToken and with it confirm reject
ConfirmSaveFails(i) ==
  /\ i \in DOMAIN pending
  /\ pending[i].op = "confirm"
  /\ pending' = RemoveAt(pending, i)
  /\ call' = [op |-> "confirm", origin |-> pending[i].origin,
              code |-> pending[i].code, out |-> "error"]
  /\ UNCHANGED <<jobVars, httpVars, hist>>

(* ------------------------ token store, call by call -------------------- *)
\* crypto.randomBytes(32): the n-th token issued, unlike every other one
TokenNames == <<"t1", "t2", "t3", "t4", "t5", "t6">>

\* the tokens handed out so far, those of origin no longer current
Superseded(issued, origin, how) ==
  [k \in DOMAIN issued |->
     IF issued[k].origin = origin /\ issued[k].status = "live"
     THEN [issued[k] EXCEPT !.status = how]
     ELSE issued[k]]

\* issueToken(origin) up to `await this.save()`: the entry of the origin
\* is replaced
IssueBegin(origin) ==
  /\ Len(hist.issued) < MaxIssues
  /\ LET token == TokenNames[Len(hist.issued) + 1]
     IN /\ entries' = issueToken(entries, origin, token)
        /\ pending' = Append(pending,
             [op |-> "issueToken", origin |-> origin, token |-> token,
              n |-> Len(hist.issued) + 1])
        /\ hist' = [hist EXCEPT !.issued =
             Append(Superseded(@, origin, "replaced"),
                    [origin |-> origin, token |-> token, status |-> "live",
                     returned |-> FALSE])]
        /\ call' = [op |-> "issueToken.await", origin |-> origin,
                    token |-> token, verified |-> FALSE, status |-> 0]
  /\ UNCHANGED <<jobVars, config, linked, codes, hits, req, res>>

\* tokens.json is written: issueToken returns the token
IssueEnd(i) ==
  /\ i \in DOMAIN pending
  /\ pending[i].op = "issueToken"
  /\ pending' = RemoveAt(pending, i)
  /\ hist' = [hist EXCEPT !.issued[pending[i].n].returned = TRUE]
  /\ call' = [op |-> "issueToken", origin |-> pending[i].origin,
              token |-> pending[i].token, verified |-> FALSE, status |-> 0]
  /\ UNCHANGED <<jobVars, httpVars>>

\* revokeToken(origin)
Revoke(origin) ==
  /\ entries' = revokeToken(entries, origin)
  /\ hist' = [hist EXCEPT !.issued = Superseded(@, origin, "revoked")]
  /\ call' = [op |-> "revokeToken", origin |-> origin, token |-> "",
              verified |-> FALSE, status |-> 0]
  /\ UNCHANGED <<jobVars, config, linked, codes, hits, req, res, pending>>

\* a request of Origin origin with `Authorization: Bearer token`
BearerRequest(origin, token) ==
  [NoRequest EXCEPT !.peer = "127.0.0.1", !.host = "127.0.0.1:8790",
                    !.origin = origin, !.body = "json",
                    !.route = Route("GET", "/v1/diagnostics"),
                    !.auth = AuthHeader("Bearer", token)]

\* the request comes to authGuard, which calls verifyToken
Present(origin, token) ==
  /\ call' = [op |-> "authGuard", origin |-> origin, token |-> token,
              verified |-> verifyToken(entries, origin, token),
              status |-> authGuard(Ctx, BearerRequest(origin, token),
                                   origin, {}).res.status]
  /\ entries' = pruneExpired(entries)
  /\ UNCHANGED <<jobVars, config, linked, codes, hits, req, res, pending, hist>>

\* GET /v1/meta from an allowlisted origin: pairing.paired in the answer
Meta(origin) ==
  /\ call' = [op |-> "GET /v1/meta", origin |-> origin,
              paired |-> getActiveToken(entries, origin) # <<>>]
  /\ entries' = pruneExpired(entries)
  /\ UNCHANGED <<jobVars, config, linked, codes, hits, req, res, pending, hist>>

(* ------------------------------ tokens.json ---------------------------- *)
\* save(): the payload is serialised from this.entries when save is called,
\* then fs.writeFile is started and awaited
SaveBegin(ents, n) == [op |-> "save", n |-> n, data |-> ents]

\* issueToken(origin) up to the await of save()
IssueSave(origin) ==
  /\ hist.calls < MaxSaves
  /\ LET ents == issueToken(entries, origin, TokenNames[hist.calls + 1])
     IN /\ entries' = ents
        /\ pending' = Append(pending, SaveBegin(ents, hist.calls + 1))
  /\ hist' = [hist EXCEPT !.calls = @ + 1]
  /\ UNCHANGED <<jobVars, config, linked, codes, hits, req, res, call>>

\* revokeToken(origin) up to the await of save()
RevokeSave(origin) ==
  /\ hist.calls < MaxSaves
  /\ LET ents == revokeToken(entries, origin)
     IN /\ entries' = ents
        /\ pending' = Append(pending, SaveBegin(ents, hist.calls + 1))
  /\ hist' = [hist EXCEPT !.calls = @ + 1]
  /\ UNCHANGED <<jobVars, config, linked, codes, hits, req, res, call>>

\* one of the writes in flight replaces the content of tokens.json and its
\* caller resumes; writes to the same file that are in flight together are
\* not ordered
WriteLands(i) ==
  /\ i \in DOMAIN pending
  /\ pending[i].op = "save"
  /\ pending' = RemoveAt(pending, i)
  /\ call' = [op |-> "fs.writeFile", n |-> pending[i].n,
              data |-> pending[i].data]
  /\ UNCHANGED <<jobVars, httpVars, hist>>

(* ------------------------- approvals, call by call --------------------- *)
\* the routes that call ensureApproval, with the capability each asks for
ApprovalRoutes == {"os/open:terminal", "os/open:vscode", "deps/install"}

CapabilityOf(route) ==
  IF route = "os/open:terminal" THEN "open-terminal"
  ELSE IF route = "os/open:vscode" THEN "open-vscode"
  ELSE "deps/install"

\* the resolved paths of the requests
RepoPaths == {AbsRepo, <<"/", "ws", "other">>}

\* approval entries as a config.json written by hand can hold them
EntryPaths ==
  {Null, <<"*">>, <<>>, AbsRepo, <<"repo">>, <<"..", "ws", "repo">>,
   <<".", "other">>, <<"/", "ws">>}

Entry(origin, repoPath, capability) ==
  [origin |-> origin, repoPath |-> repoPath, capabilities |-> <<capability>>]

\* a request that ensureApproval has let through or turned down: for a
\* prompt that was never opened answer is "none", "notty" without a terminal
Outcome(c, answer, saved, held, error) ==
  [op |-> c.route, route |-> c.route, origin |-> c.origin,
   capability |-> CapabilityOf(c.route),
   repoPath |-> c.repoPath, answer |-> answer, saved |-> saved,
   held |-> held,
   status |-> IF error = "capability_not_granted" THEN 409
              ELSE IF error # "" THEN 500
              ELSE IF c.route = "deps/install" THEN 202 ELSE 200,
   errorCode |-> IF error = "capability_not_granted" THEN error
                 ELSE IF error # "" THEN "internal_error" ELSE "",
   fx |-> IF error # "" THEN {}
          ELSE IF c.route = "deps/install" THEN {"jobs.enqueue"}
          ELSE {"spawn"}]

\* what the handler does once ensureApproval has returned or thrown:
\* openTarget, jobManager.enqueue, or nothing
AfterApproval(c, error) ==
  IF error = "" /\ c.route = "deps/install"
  THEN /\ Commit(EnqueueOp(Mgr))
       /\ last' = Async
       /\ UNCHANGED <<maxConcurrent, timeoutMs>>
  ELSE UNCHANGED jobVars

\* a handler reaches ensureApproval: hasApproval, and without it the prompt;
\* promptApproval returns false at once when no terminal can be opened
EnsureBegin(route, origin, repoPath, tty) ==
  LET c == [route |-> route, origin |-> origin, repoPath |-> repoPath]
      has == hasApproval(linked, config, origin, repoPath, CapabilityOf(route),
                         AbsRoot)
      again == requireApproval(linked, config, origin, repoPath,
                               CapabilityOf(route), AbsRoot)
  IN /\ hist.calls < MaxCalls
     /\ hist' = [hist EXCEPT !.calls = @ + 1]
     /\ IF has = "true"
        THEN /\ call' = Outcome(c, "none", FALSE, TRUE, "")
             /\ AfterApproval(c, "")
             /\ UNCHANGED pending
        ELSE IF has # "false"
        THEN /\ call' = Outcome(c, "none", FALSE, FALSE, has)
             /\ AfterApproval(c, has)
             /\ UNCHANGED pending
        ELSE IF ~tty
        THEN /\ call' = Outcome(c, "notty", FALSE, again = "ok",
                                IF again = "ok" THEN "" ELSE again)
             /\ AfterApproval(c, IF again = "ok" THEN "" ELSE again)
             /\ UNCHANGED pending
        ELSE /\ pending' = Append(pending, [op |-> "prompt"] @@ c)
             /\ call' = [op |-> "prompt.await"] @@ c
             /\ UNCHANGED jobVars
     /\ UNCHANGED httpVars

\* the operator answers a prompt: y and yes grant the capability in memory
\* and start saveConfig, anything else goes to requireApproval
Answer(i, answer) ==
  /\ i \in DOMAIN pending
  /\ pending[i].op = "prompt"
  /\ LET c == pending[i]
         again == requireApproval(linked, config, c.origin, c.repoPath,
                                  CapabilityOf(c.route), AbsRoot)
     IN IF answer = "yes"
        THEN /\ config' = upsertOriginApproval(config, c.origin,
                                               CapabilityOf(c.route))
             /\ pending' = [pending EXCEPT ![i].op = "saveConfig"]
             /\ hist' = [hist EXCEPT !.grants =
                           Append(@, <<c.origin, CapabilityOf(c.route)>>)]
             /\ call' = [c EXCEPT !.op = "saveConfig.await"]
             /\ UNCHANGED jobVars
        ELSE /\ pending' = RemoveAt(pending, i)
             /\ call' = Outcome(c, "no", FALSE, again = "ok",
                                IF again = "ok" THEN "" ELSE again)
             /\ AfterApproval(c, IF again = "ok" THEN "" ELSE again)
             /\ UNCHANGED <<config, hist>>
  /\ UNCHANGED <<linked, entries, codes, hits, req, res>>

\* config.json is written: ensureApproval returns and the handler goes on
Saved(i) ==
  /\ i \in DOMAIN pending
  /\ pending[i].op = "saveConfig"
  /\ pending' = RemoveAt(pending, i)
  /\ call' = Outcome(pending[i], "yes", TRUE, FALSE, "")
  /\ AfterApproval(pending[i], "")
  /\ UNCHANGED <<httpVars, hist>>

\* fs.writeFile fails: ensureApproval rejects with the error of saveConfig
SaveFails(i) ==
  /\ i \in DOMAIN pending
  /\ pending[i].op = "saveConfig"
  /\ pending' = RemoveAt(pending, i)
  /\ call' = Outcome(pending[i], "yes", FALSE, FALSE, "EIO")
  /\ UNCHANGED <<jobVars, httpVars, hist>>

\* one call of hasApproval
HasApprovalCall(origin, repoPath, capability, workspaceRoot) ==
  /\ call' = [op |-> "hasApproval", origin |-> origin, repoPath |-> repoPath,
              capability |-> capability, workspaceRoot |-> workspaceRoot,
              out |-> hasApproval(linked, config, origin, repoPath, capability,
                                  workspaceRoot)]
  /\ UNCHANGED <<jobVars, httpVars, pending, hist>>

(* --------------------------- specifications ---------------------------- *)
\* no component call is suspended or has returned, nothing was handed out
NoHist ==
  [starts |-> <<>>, confirms |-> 0, issued |-> <<>>, grants |-> <<>>,
   calls |-> 0, loaded |-> <<>>]

NoCalls ==
  /\ pending = <<>>
  /\ call = [op |-> "none"]
  /\ hist = NoHist

Init ==
  /\ maxConcurrent \in 1..MaxConcurrent
  /\ timeoutMs \in {0, 1000}
  /\ jobs = <<>>
  /\ queue = <<>>
  /\ running = 0
  /\ history = <<>>
  /\ task = <<>>
  /\ emitted = <<>>
  /\ streams = <<>>
  /\ last = [op |-> "init", id |-> 0, ret |-> TRUE]
  /\ config = DefaultConfig
  /\ linked \in ApprovalModules
  /\ entries = <<>>
  /\ codes = NoCodes
  /\ hits = [global |-> 0, pair |-> 0]
  /\ req = NoRequest
  /\ res = NoResponse
  /\ NoCalls

JobIds == 1..MaxJobs

RunnerStep ==
  \E id \in JobIds :
    \/ RunnerSpawn(id)
    \/ RunnerSucceed(id)
    \/ RunnerFail(id)

LogStep ==
  \E id \in JobIds :
    \E kind \in {"stdout", "stderr", "progress"} : RunnerLog(id, kind)

TimerStep ==
  \E id \in JobIds : TimerFire(id) \/ TimeoutResume(id)

Next ==
  \/ Enqueue(MaxJobs)
  \/ \E id \in JobIds : Cancel(id)
  \/ RunnerStep
  \/ TimerStep

Spec == Init /\ [][Next]_vars

StreamNext ==
  \/ Enqueue(StreamJobs)
  \/ \E id \in JobIds : Cancel(id)
  \/ RunnerStep
  \/ LogStep
  \/ TimerStep
  \/ \E id \in JobIds : Subscribe(id)
  \/ \E i \in 1..MaxStreams : Disconnect(i)

StreamSpec == Init /\ [][StreamNext]_vars

\* the daemon as started by main: jobs.maxConcurrent 1, a workspace root
\* configured or not, tokens.json empty or holding the token of a paired
\* origin
PairedA ==
  <<[origin |-> OriginA, tokenHash |-> Scrypt("t1", "salt"), salt |-> "salt",
     expired |-> FALSE]>>

HttpInit ==
  /\ maxConcurrent = 1
  /\ timeoutMs = 1000
  /\ jobs = <<>>
  /\ queue = <<>>
  /\ running = 0
  /\ history = <<>>
  /\ task = <<>>
  /\ emitted = <<>>
  /\ streams = <<>>
  /\ last = [op |-> "init", id |-> 0, ret |-> TRUE]
  /\ config \in {[DefaultConfig EXCEPT !.workspaceRoot = w] : w \in BOOLEAN}
  /\ linked \in ApprovalModules
  /\ entries \in {<<>>, PairedA}
  /\ codes = NoCodes
  /\ hits = [global |-> 0, pair |-> 0]
  /\ req = NoRequest
  /\ res = NoResponse
  /\ NoCalls

HttpNext ==
  \/ Receive
  \/ Handle
  \/ Respond
  \/ TokenExpires
  \/ CodeExpires

HttpSpec == HttpInit /\ [][HttpNext]_vars

\* no job, no token, no pairing code, no request
Quiet ==
  /\ maxConcurrent = 1
  /\ timeoutMs = 1000
  /\ jobs = <<>>
  /\ queue = <<>>
  /\ running = 0
  /\ history = <<>>
  /\ task = <<>>
  /\ emitted = <<>>
  /\ streams = <<>>
  /\ last = [op |-> "init", id |-> 0, ret |-> TRUE]
  /\ hits = [global |-> 0, pair |-> 0]
  /\ req = NoRequest
  /\ res = NoResponse

PathInit ==
  /\ Quiet
  /\ config = [DefaultConfig EXCEPT !.workspaceRoot = TRUE]
  /\ linked \in ApprovalModules
  /\ entries = <<>>
  /\ codes = NoCodes
  /\ pending = <<>>
  /\ hist = NoHist
  /\ call \in {[op |-> "input", layout |-> l, workspaceRoot |-> w,
                 candidate |-> c, allowMissing |-> m, out |-> Thrown("")] :
                  l \in Layouts, w \in {WsRoot, <<"home">>},
                  c \in Candidates, m \in BOOLEAN}

PathNext == ResolveCall

PathSpec == PathInit /\ [][PathNext]_vars

DepsInit ==
  /\ Quiet
  /\ config = [DefaultConfig EXCEPT !.workspaceRoot = TRUE]
  /\ linked = "src/approvals.ts"
  /\ entries = <<>>
  /\ codes = NoCodes
  /\ pending = <<>>
  /\ hist = NoHist
  /\ \E files \in SUBSET RepoFiles, manager \in {"npm", "pnpm", "yarn"},
        mode \in {"auto", "ci", "install"}, safer \in BOOLEAN :
       call = [op |-> "input", files |-> files, manager |-> manager,
               mode |-> mode, safer |-> safer,
               out |-> [command |-> "", args |-> <<>>]]

DepsNext == BuildCall

DepsSpec == DepsInit /\ [][DepsNext]_vars

PairInit ==
  /\ Quiet
  /\ config = DefaultConfig
  /\ linked \in ApprovalModules
  /\ entries = <<>>
  /\ codes = NoCodes
  /\ NoCalls

PairNext ==
  \/ \E origin \in AllowedOrigins : Start(origin)
  \/ \E origin \in AllowedOrigins, code \in PairCodes \cup {"zz"} :
       ConfirmBegin(origin, code)
  \/ \E i \in 1..MaxConfirms : ConfirmEnd(i) \/ ConfirmSaveFails(i)
  \/ CodeExpires

PairSpec == PairInit /\ [][PairNext]_vars

\* tokens.json is empty, or holds the token an earlier run issued
TokenInit ==
  /\ Quiet
  /\ config = DefaultConfig
  /\ linked = "src/approvals.ts"
  /\ codes = NoCodes
  /\ pending = <<>>
  /\ call = [op |-> "none"]
  /\ \/ entries = <<>> /\ hist = NoHist
     \/ /\ entries = PairedA
        /\ hist = [NoHist EXCEPT !.issued =
                     <<[origin |-> OriginA, token |-> "t1", status |-> "live",
                        returned |-> TRUE]>>]

TokenNext ==
  \/ \E origin \in AllowedOrigins : IssueBegin(origin) \/ Revoke(origin)
  \/ \E origin \in AllowedOrigins : Meta(origin)
  \/ \E i \in 1..MaxIssues : IssueEnd(i)
  \/ \E origin \in AllowedOrigins,
        token \in {TokenNames[n] : n \in 1..MaxIssues} \cup {"bogus"} :
       Present(origin, token)
  \/ TokenExpires

TokenSpec == TokenInit /\ [][TokenNext]_vars

\* the store was loaded from tokens.json, which holds what memory holds
SaveInit ==
  /\ Quiet
  /\ config = DefaultConfig
  /\ linked = "src/approvals.ts"
  /\ codes = NoCodes
  /\ pending = <<>>
  /\ hist = NoHist
  /\ entries \in {<<>>, PairedA}
  /\ call = [op |-> "fs.writeFile", n |-> 0, data |-> entries]

SaveNext ==
  \/ \E origin \in AllowedOrigins : IssueSave(origin) \/ RevokeSave(origin)
  \/ \E i \in 1..MaxSaves : WriteLands(i)

SaveSpec == SaveInit /\ [][SaveNext]_vars

\* the daemon starts with a workspace root and the approvals of config.json
ApprovalInit ==
  /\ Quiet
  /\ \E approvals \in {<<>>, <<Entry(OriginA, AbsRepo, "open-terminal")>>,
                       <<Entry(OriginA, <<"*">>, "open-terminal")>>} :
       /\ config = [DefaultConfig EXCEPT !.workspaceRoot = TRUE,
                                         !.approvals = approvals]
       /\ hist = [NoHist EXCEPT !.loaded = approvals]
  /\ linked \in ApprovalModules
  /\ entries = <<>>
  /\ codes = NoCodes
  /\ pending = <<>>
  /\ call = [op |-> "none"]

ApprovalNext ==
  \/ \E route \in ApprovalRoutes, origin \in AllowedOrigins,
        repoPath \in RepoPaths, tty \in BOOLEAN :
       EnsureBegin(route, origin, repoPath, tty)
  \/ \E i \in 1..MaxCalls : \E answer \in {"yes", "no"} : Answer(i, answer)
  \/ \E i \in 1..MaxCalls : Saved(i)
  \/ \E i \in 1..MaxCalls : SaveFails(i)

ApprovalSpec == ApprovalInit /\ [][ApprovalNext]_vars

\* hasApproval on the lists of at most MaxEntries entries
RECURSIVE EntryLists(_)
EntryLists(n) ==
  IF n = 0 THEN {<<>>}
  ELSE LET shorter == EntryLists(n - 1)
       IN shorter \cup
          {Append(l, Entry(o, p, c)) :
             l \in {x \in shorter : Len(x) = n - 1},
             o \in AllowedOrigins, p \in EntryPaths,
             c \in {"open-terminal", "deps/install"}}

HasApprovalInit ==
  /\ Quiet
  /\ \E approvals \in EntryLists(MaxEntries) :
       config = [DefaultConfig EXCEPT !.workspaceRoot = TRUE,
                                      !.approvals = approvals]
  /\ linked \in ApprovalModules
  /\ entries = <<>>
  /\ codes = NoCodes
  /\ NoCalls

HasApprovalNext ==
  \E repoPath \in RepoPaths \cup {AbsRoot},
     capability \in {"open-terminal", "open-vscode"},
     workspaceRoot \in {AbsRoot, Null} :
    HasApprovalCall(OriginA, repoPath, capability, workspaceRoot)

HasApprovalSpec == HasApprovalInit /\ [][HasApprovalNext]_vars

\* the requests tried: every repoUrl with a destination that can be created,
\* and every destination with a repoUrl that is accepted and one that is not
CloneInit ==
  /\ Quiet
  /\ config \in {[DefaultConfig EXCEPT !.workspaceRoot = w] : w \in BOOLEAN}
  /\ linked \in ApprovalModules
  /\ entries = PairedA
  /\ codes = NoCodes
  /\ pending = <<>>
  /\ hist = NoHist
  /\ \/ \E u \in Urls, b \in BOOLEAN :
          call = CloneRequest(PlainLayout, u, b, NewDest)
     \/ \E l \in Layouts, u \in {GoodUrl, FileUrl}, c \in Candidates :
          call = CloneRequest(l, u, FALSE, c)

CloneNext == CloneCall

CloneSpec == CloneInit /\ [][CloneNext]_vars

\* POST /v1/jobs/:id/cancel: the handler calls cancel for a job it found
\* queued or running
CancelRoute(id) ==
  /\ id \in DOMAIN jobs
  /\ jobs[id].state \in {"queued", "running"}
  /\ Cancel(id)

\* a request of a paired origin for POST /v1/jobs/:id/cancel
CancelRequestFor(id) ==
  [NoRequest EXCEPT !.peer = "127.0.0.1", !.host = "127.0.0.1:8790",
                    !.origin = OriginA, !.body = "json",
                    !.route = Route("POST", "/v1/jobs/:id/cancel"),
                    !.auth = AuthHeader("Bearer", "t1"),
                    !.args = [NoArgs EXCEPT !.id = id]]

\* the cancel route calling cancel whatever the job's state
CancelRequestAnyState(id) ==
  /\ hist.calls < MaxCalls
  /\ LET r == CancelOp(Mgr, id)
     IN /\ Commit(r.m)
        /\ call' = [op |-> "POST /v1/jobs/:id/cancel", id |-> id,
                    n |-> hist.calls + 1,
                    status |-> IF id \in DOMAIN jobs THEN 200 ELSE 404,
                    errorCode |-> IF id \in DOMAIN jobs THEN ""
                                  ELSE "job_not_found"]
  /\ hist' = [hist EXCEPT !.calls = @ + 1]
  /\ last' = Async
  /\ UNCHANGED <<maxConcurrent, timeoutMs, httpVars, pending>>

\* POST /v1/jobs/:id/cancel behind authGuard: the handler and its answer
CancelRequest(id) ==
  /\ hist.calls < MaxCalls
  /\ LET rp == RouteHandler(Ctx, CancelRequestFor(id), OriginA, {})
     IN /\ Commit(rp.d.m)
        /\ call' = [op |-> "POST /v1/jobs/:id/cancel", id |-> id,
                    n |-> hist.calls + 1, status |-> rp.res.status,
                    errorCode |-> rp.res.errorCode]
  /\ hist' = [hist EXCEPT !.calls = @ + 1]
  /\ last' = Async
  /\ UNCHANGED <<maxConcurrent, timeoutMs, httpVars, pending>>

\* the job manager behind the cancel route
CancelInit == Init /\ linked = "src/approvals.ts"

CancelNext ==
  \/ Enqueue(MaxJobs)
  \/ \E id \in JobIds : CancelRequest(id)
  \/ RunnerStep
  \/ TimerStep

CancelSpec == CancelInit /\ [][CancelNext]_vars

\* the daemon with a paired origin and a workspace root that holds neither
\* destination; no clone request has been made
DestInit ==
  /\ maxConcurrent \in 1..MaxConcurrent
  /\ timeoutMs \in {0, 1000}
  /\ jobs = <<>>
  /\ queue = <<>>
  /\ running = 0
  /\ history = <<>>
  /\ task = <<>>
  /\ emitted = <<>>
  /\ streams = <<>>
  /\ last = [op |-> "init", id |-> 0, ret |-> TRUE]
  /\ config = [DefaultConfig EXCEPT !.workspaceRoot = TRUE]
  /\ linked = "src/approvals.ts"
  /\ entries = PairedA
  /\ codes = NoCodes
  /\ hits = [global |-> 0, pair |-> 0]
  /\ req = NoRequest
  /\ res = NoResponse
  /\ pending = <<>>
  /\ hist = NoHist
  /\ call = [op |-> "none", layout |-> PlainLayout,
             body |-> [repoUrl |-> GoodUrl, blank |-> FALSE,
                       destRelative |-> NewDest],
             out |-> NoResponse]

DestNext ==
  \/ \E destRelative \in {NewDest, OtherDest} : CloneAccept(destRelative)
  \/ \E i \in 1..MaxJobs : GitCreatesDest(i)
  \/ RunnerStep
  \/ TimerStep

DestSpec == DestInit /\ [][DestNext]_vars

\* the job manager with enough jobs for a queue of several, no timeout set
QueueInit ==
  /\ maxConcurrent \in 1..MaxConcurrent
  /\ timeoutMs = 0
  /\ jobs = <<>>
  /\ queue = <<>>
  /\ running = 0
  /\ history = <<>>
  /\ task = <<>>
  /\ emitted = <<>>
  /\ streams = <<>>
  /\ last = [op |-> "init", id |-> 0, ret |-> TRUE]
  /\ config = DefaultConfig
  /\ linked = "src/approvals.ts"
  /\ entries = <<>>
  /\ codes = NoCodes
  /\ hits = [global |-> 0, pair |-> 0]
  /\ req = NoRequest
  /\ res = NoResponse
  /\ NoCalls

QueueNext ==
  \/ Enqueue(QueueJobs)
  \/ \E id \in 1..QueueJobs : CancelRoute(id)
  \/ \E id \in 1..QueueJobs : RunnerSpawn(id)
  \/ \E id \in 1..QueueJobs : RunnerSucceed(id)
  \/ \E id \in 1..QueueJobs : RunnerFail(id)

QueueSpec == QueueInit /\ [][QueueNext]_vars

\* a request of a paired origin for one of the routes under /v1/jobs/:id,
\* behind authGuard: the handler and its answer
JobRequest(route, id) ==
  /\ hist.calls < MaxCalls
  /\ LET r == [CancelRequestFor(id) EXCEPT !.route = route]
         rp == RouteHandler(Ctx, r, OriginA, {})
     IN /\ Commit(rp.d.m)
        /\ call' = [op |-> route.path, id |-> id, n |-> hist.calls + 1,
                    status |-> rp.res.status, errorCode |-> rp.res.errorCode,
                    jobs |-> <<>>]
  /\ hist' = [hist EXCEPT !.calls = @ + 1]
  /\ last' = Async
  /\ UNCHANGED <<maxConcurrent, timeoutMs, httpVars, pending>>

\* GET /v1/diagnostics behind authGuard: the jobs of its answer
DiagnosticsRequest ==
  /\ hist.calls < MaxCalls
  /\ LET r == [CancelRequestFor(0) EXCEPT
                 !.route = Route("GET", "/v1/diagnostics")]
         rp == RouteHandler(Ctx, r, OriginA, {})
     IN /\ Commit(rp.d.m)
        /\ call' = [op |-> "/v1/diagnostics", id |-> 0, n |-> hist.calls + 1,
                    status |-> rp.res.status, errorCode |-> rp.res.errorCode,
                    jobs |-> listRecent(rp.d.m)]
  /\ hist' = [hist EXCEPT !.calls = @ + 1]
  /\ last' = Async
  /\ UNCHANGED <<maxConcurrent, timeoutMs, httpVars, pending>>

\* a started runner's promise settles: the .then or .catch and the .finally
RunnerSettles(id) == RunnerSucceed(id) \/ RunnerFail(id)

\* the job manager with a timeout set and every started runner settling in
\* the end
LiveInit == Init /\ timeoutMs = 1000 /\ linked = "src/approvals.ts"

LiveSpec ==
  LiveInit /\ [][Next]_vars /\ \A id \in JobIds : WF_vars(RunnerSettles(id))

\* one job at a time, no timeout: jobs beyond the history, logs beyond the ring
RingInit == QueueInit /\ maxConcurrent = 1

RingNext ==
  \/ Enqueue(RingJobs)
  \/ \E id \in 1..RingJobs : CancelRoute(id)
  \/ \E id \in 1..RingJobs : RunnerSpawn(id)
  \/ \E id \in 1..RingJobs : RunnerSucceed(id)
  \/ \E id \in 1..RingJobs : RunnerFail(id)
  \/ \E id \in 1..RingJobs : RunnerLog(id, "stdout")

RingSpec == RingInit /\ [][RingNext]_vars

JobRoutes ==
  {Route("GET", "/v1/jobs/:id"), Route("GET", "/v1/jobs/:id/stream"),
   Route("POST", "/v1/jobs/:id/cancel")}

RecentNext ==
  \/ Enqueue(RingJobs)
  \/ \E route \in JobRoutes, id \in 1..RingJobs : JobRequest(route, id)
  \/ DiagnosticsRequest
  \/ \E id \in 1..RingJobs : RunnerSpawn(id)
  \/ \E id \in 1..RingJobs : RunnerSucceed(id)
  \/ \E id \in 1..RingJobs : RunnerFail(id)

RecentSpec == RingInit /\ [][RecentNext]_vars

TypeOK ==
  /\ running \in 0..maxConcurrent
  /\ \A id \in DOMAIN jobs :
       jobs[id].state \in {"queued", "running"} \cup TerminalStates

(* ------------------------------ claims --------------------------------- *)
RunningJobs == {id \in DOMAIN jobs : jobs[id].state = "running"}

StateEvents(seq) == SelectSeq(seq, LAMBDA e : e.type = "state")

TerminalEvents(seq) == SelectSeq(seq, isTerminalState)

AllowedTransitions ==
  {<<"queued", "running">>, <<"running", "done">>, <<"running", "error">>,
   <<"running", "cancelled">>, <<"queued", "cancelled">>}

\* C1: a job's state changes only along queued->running, running->done,
\* running->error, running->cancelled and queued->cancelled; a state that is
\* done, error or cancelled never changes again.
C1_StateMachine ==
  [][\A id \in DOMAIN jobs :
       \/ jobs'[id].state = jobs[id].state
       \/ <<jobs[id].state, jobs'[id].state>> \in AllowedTransitions]_vars

\* C2: in every state at most maxConcurrent jobs have state running, and a
\* job enqueued while maxConcurrent jobs are running stays queued.
C2_ConcurrencyCap ==
  /\ [](Cardinality(RunningJobs) <= maxConcurrent)
  /\ [][(Len(jobs') = Len(jobs) + 1 /\ Cardinality(RunningJobs) = maxConcurrent)
          => jobs'[Len(jobs')].state = "queued"]_vars

\* C2 witness: an enqueue has just returned with maxConcurrent jobs running
\* and its job waiting in the queue.
C2_Witness ==
  /\ last.op = "enqueue"
  /\ Cardinality(RunningJobs) = maxConcurrent
  /\ jobs[last.id].state = "queued"
  /\ last.id \in {queue[i] : i \in DOMAIN queue}

\* C3: for every job at most one state event with state done, error or
\* cancelled is ever emitted, and exactly one once the job is terminal.
C3_OneTerminalEvent ==
  \A id \in DOMAIN jobs :
    /\ Len(TerminalEvents(emitted[id])) <= 1
    /\ jobs[id].state \in TerminalStates
         => Len(TerminalEvents(emitted[id])) = 1

\* C4: once the timer of a running job has fired and its callback has run
\* to its end, the job is in state error with errorCode timeout and its
\* terminal event is state=error with message "Timed out".
C4_TimeoutEndsInError ==
  \A id \in DOMAIN jobs :
    (task[id].timedOut /\ task[id].tpc # "awaiting")
      => /\ jobs[id].state = "error"
         /\ jobs[id].error = "timeout"
         /\ TerminalEvents(emitted[id]) = <<StateEvent("error", "Timed out")>>

\* C5: cancel(id) on a running job leaves the job cancelled when it returns,
\* and the settlement of the runner of a cancelled job changes neither the
\* job's state nor its error field and emits no state event.
C5_CancelRunning ==
  [][\A id \in DOMAIN jobs :
       /\ (jobs[id].state = "running" /\ last'.op = "cancel" /\ last'.id = id)
            => (jobs'[id].state = "cancelled" /\ last'.ret)
       /\ (jobs[id].state = "cancelled" /\ task[id].runner # "settled"
             /\ task'[id].runner = "settled")
            => /\ jobs'[id].state = jobs[id].state
               /\ jobs'[id].error = jobs[id].error
               /\ StateEvents(emitted'[id]) = StateEvents(emitted[id])]_vars

\* C5 witness: a job cancelled while it was running, its cancel handle
\* invoked, whose runner has settled afterwards.
C5_Witness ==
  \E id \in DOMAIN jobs :
    /\ jobs[id].state = "cancelled"
    /\ jobs[id].startedAt
    /\ task[id].sigterm
    /\ task[id].runner = "settled"
    /\ TerminalEvents(emitted[id]) = <<StateEvent("cancelled", "")>>

\* C6: whenever a job is terminal, the last event in its ring is a state
\* event whose state is the job's current state.
C6_LastEventIsTerminal ==
  \A id \in DOMAIN jobs :
    jobs[id].state \in TerminalStates
      => /\ jobs[id].events # <<>>
         /\ jobs[id].events[Len(jobs[id].events)].type = "state"
         /\ jobs[id].events[Len(jobs[id].events)].state = jobs[id].state

\* the events of seq up to and including its first terminal state event
RECURSIVE UpToTerminal(_)
UpToTerminal(seq) ==
  IF seq = <<>> THEN <<>>
  ELSE IF isTerminalState(Head(seq)) THEN <<Head(seq)>>
  ELSE <<Head(seq)>> \o UpToTerminal(Tail(seq))

\* C7: a subscriber that has not disconnected has received every event the
\* job emitted since it was created, in emission order without gap or
\* duplicate, up to and including the job's terminal state event.
C7_SubscriberSeesAll ==
  \A i \in DOMAIN streams :
    streams[i].status # "disconnected"
      => streams[i].received = UpToTerminal(emitted[streams[i].job])

\* no callback of the job is pending: nothing will emit for it again
AtRest(id) ==
  /\ task[id].runner \in {"none", "settled"}
  /\ task[id].tpc # "awaiting"

\* C8: no stream stays open on a terminal job: once the job is terminal and
\* none of its callbacks is pending, every stream on it has been ended by
\* the daemon (or closed by its client).
C8_StreamsClosed ==
  \A i \in DOMAIN streams :
    (jobs[streams[i].job].state \in TerminalStates /\ AtRest(streams[i].job))
      => streams[i].status # "open"

\* a step in which the response to req is produced
Answered == req # NoRequest /\ res = NoResponse /\ res' # NoResponse

Allowlisted(origin) ==
  \E i \in DOMAIN config.originAllowlist : config.originAllowlist[i] = origin

\* C9: every request whose Origin header is missing, empty or not on the
\* allowlist is answered 403 origin_not_allowed, whatever its route, method
\* and body (a body over 256 KiB or malformed JSON included).
C9_OriginRejected ==
  (res # NoResponse /\ ~Allowlisted(req.origin))
    => (res.status = 403 /\ res.errorCode = "origin_not_allowed")

\* the request gets as far as the route: it is not turned away by
\* express.json, the loopback, Host and Origin guards or the rate limiter
ReachesRoute ==
  /\ req.body = "json"
  /\ isLoopbackAddress(req.peer)
  /\ Hostname(req.host) \in ALLOWED_HOSTS
  /\ Allowlisted(req.origin)
  /\ hits.global < RATE_MAX

\* the header is a Bearer token that verifies for the request's own Origin
ValidBearer ==
  /\ req.auth.present
  /\ req.auth.scheme \in {"Bearer", "bearer"}
  /\ req.auth.token # ""
  /\ verifyToken(entries, req.origin, req.auth.token)

\* what a handler behind authGuard can do
HandlerEffects ==
  {"handler", "jobs.get", "jobs.enqueue", "jobs.cancel", "jobs.listRecent",
   "stream", "mkdir", "spawn", "prompt", "saveConfig"}

\* no job enqueued, read or cancelled, no process spawned, no approval
\* prompted or stored
Untouched ==
  /\ UNCHANGED <<jobs, queue, running, history, task, emitted, streams, config, linked>>
  /\ res'.fx \cap HandlerEffects = {}

\* C10 as stated: every route other than /v1/meta and /v1/pair answers 401
\* auth_required when the Authorization header is absent and 401
\* auth_invalid when it is not a Bearer token verifying for the request's
\* Origin, in both cases without touching jobs, processes or approvals.
C10_Literal ==
  [][(Answered /\ req.route \in ProtectedRoutes)
       => /\ ~req.auth.present
               => (res'.status = 401 /\ res'.errorCode = "auth_required")
          /\ (req.auth.present /\ ~ValidBearer)
               => (res'.status = 401 /\ res'.errorCode = "auth_invalid")
          /\ ~ValidBearer => Untouched]_vars

\* C10 amended: a request to a route other than /v1/meta and /v1/pair that
\* gets past the body parser, the loopback, Host and Origin guards and the
\* rate limiter is answered 401 auth_required when its Authorization header
\* is absent or empty, and 401 auth_invalid when the header is non-empty and
\* not a Bearer token verifying for the request's own Origin; in both cases
\* no job is enqueued, read or cancelled, no process is spawned and no
\* approval is prompted or stored.
C10_AuthGuard ==
  [][(Answered /\ req.route \in ProtectedRoutes /\ ReachesRoute)
       => /\ Falsy(req.auth)
               => (res'.status = 401 /\ res'.errorCode = "auth_required")
          /\ (~Falsy(req.auth) /\ ~ValidBearer)
               => (res'.status = 401 /\ res'.errorCode = "auth_invalid")
          /\ ~ValidBearer => Untouched]_vars

\* C10 witness: the token that verifies for OriginA is presented from
\* OriginB to cancel a running job; the answer is 401 auth_invalid and the
\* job is still running.
C10_Witness ==
  /\ res.status = 401
  /\ res.errorCode = "auth_invalid"
  /\ req.route = Route("POST", "/v1/jobs/:id/cancel")
  /\ req.origin = OriginB
  /\ req.auth = AuthHeader("Bearer", "t1")
  /\ verifyToken(entries, OriginA, "t1")
  /\ req.args.id \in DOMAIN jobs
  /\ jobs[req.args.id].state = "running"

\* the location a path denotes: every symlink on it followed, components
\* that do not exist kept as they are
RECURSIVE Follow(_, _, _)
Follow(layout, cur, rest) ==
  IF rest = <<>> THEN cur
  ELSE LET nxt == Append(cur, Head(rest))
       IN Follow(layout,
                 IF nxt \in DOMAIN layout.links THEN layout.links[nxt] ELSE nxt,
                 Tail(rest))

Denotes(layout, target) == Follow(layout, <<>>, target)

\* C11: resolveInsideWorkspace returns a path only if the location the path
\* denotes once every symlink on it is resolved lies at or under the
\* canonical workspace root, also with allowMissing and trailing components
\* that do not exist; it fails path_outside_workspace when the candidate
\* denotes a location outside the root.
C11_StaysInside ==
  call.op = "resolveInsideWorkspace"
    => /\ call.out.kind = "path"
            => IsPrefix(WsRoot, Denotes(call.layout, call.out.path))
       /\ ~IsPrefix(WsRoot,
                    Denotes(call.layout,
                            PathResolve(WsRoot, call.candidate)))
            => call.out.kind # "path"

\* a step in which confirm runs up to its return or its await
ConfirmStep ==
  /\ hist'.confirms = hist.confirms + 1
  /\ call'.op \in {"confirm", "confirm.await"}

\* C12: for each code returned by start(origin) at most one confirm is
\* accepted and at most one returns a token, also while an accepted confirm
\* is still suspended; a confirm that follows an accepted one with no start
\* in between is refused and issues no token.
C12_SingleUse ==
  /\ [](\A i \in DOMAIN hist.starts :
          hist.starts[i].issued <= 1 /\ hist.starts[i].returned <= 1)
  /\ [][(/\ ConfirmStep
         /\ LastStart(hist.starts, call'.origin) # 0
         /\ hist.starts[LastStart(hist.starts, call'.origin)].issued >= 1)
          => (call'.out = "null" /\ entries' = entries)]_vars

\* C12 witness: a confirm is suspended in issueToken and a second confirm
\* with the same origin and code has been refused meanwhile.
C12_Witness ==
  /\ Len(pending) = 1
  /\ pending[1].op = "confirm"
  /\ call.op = "confirm"
  /\ call.out = "null"
  /\ call.origin = pending[1].origin
  /\ call.code = pending[1].code

\* the code is the one the latest start of the origin returned, it has not
\* expired and no confirm has consumed it
LiveCode(origin, code) ==
  LET ls == LastStart(hist.starts, origin)
  IN /\ ls # 0
     /\ hist.starts[ls].code = code
     /\ hist.starts[ls].issued = 0
     /\ ~codes[origin].expired

\* C13: confirm(origin, code) is accepted only if code is the one most
\* recently returned by start for that origin, not expired and not consumed;
\* otherwise it returns failure, issues no token and changes neither the
\* token store nor the stored pairing codes.
C13_ConfirmGuard ==
  [][ConfirmStep
       => /\ call'.op = "confirm.await"
               => LiveCode(call'.origin, call'.code)
          /\ ~LiveCode(call'.origin, call'.code)
               => /\ call'.out = "null"
                  /\ UNCHANGED <<entries, codes, pending>>]_vars

\* C13 witness: the code of an earlier start, replaced by a later start of
\* the same origin, has been refused and no token exists.
C13_Witness ==
  /\ call.op = "confirm"
  /\ call.out = "null"
  /\ Len(hist.starts) = 2
  /\ hist.starts[1].origin = call.origin
  /\ hist.starts[2].origin = call.origin
  /\ hist.starts[1].code = call.code
  /\ hist.starts[2].code # call.code
  /\ codes[call.origin].code = hist.starts[2].code
  /\ entries = <<>>

\* C14: a token issued to an origin verifies for it exactly as long as the
\* origin's record has not been revoked, replaced or expired: true from the
\* moment issueToken has stored it, false after revokeToken(origin) and
\* once the clock has passed expiresAt.
C14_VerifiesWhileLive ==
  \A k \in DOMAIN hist.issued :
    verifyToken(entries, hist.issued[k].origin, hist.issued[k].token)
      = (hist.issued[k].status = "live")

\* C14 witness: a token that issueToken returned has expired, and authGuard
\* has just refused it for its own origin.
C14_Witness ==
  \E k \in DOMAIN hist.issued :
    /\ hist.issued[k].returned
    /\ hist.issued[k].status = "expired"
    /\ call.op = "authGuard"
    /\ call.origin = hist.issued[k].origin
    /\ call.token = hist.issued[k].token
    /\ ~call.verified

EntriesOf(origin) == {i \in DOMAIN entries : entries[i].origin = origin}

\* C15: the token store never holds two records of one origin, and a token
\* does not verify once a later issueToken for the same origin has run.
C15_OnePerOrigin ==
  /\ \A origin \in AllowedOrigins : Cardinality(EntriesOf(origin)) <= 1
  /\ \A j, k \in DOMAIN hist.issued :
       (j < k /\ hist.issued[j].origin = hist.issued[k].origin)
         => ~verifyToken(entries, hist.issued[j].origin, hist.issued[j].token)

\* C15 witness: an origin was issued a second token, which is its only
\* record, and the first one has just been refused.
C15_Witness ==
  \E j, k \in DOMAIN hist.issued :
    /\ j < k
    /\ hist.issued[j].origin = hist.issued[k].origin
    /\ hist.issued[k].status = "live"
    /\ Cardinality(EntriesOf(hist.issued[k].origin)) = 1
    /\ call.op = "authGuard"
    /\ call.origin = hist.issued[j].origin
    /\ call.token = hist.issued[j].token
    /\ call.status = 401

\* C16: a token issued to one origin never verifies for another origin and
\* never takes a request with another Origin header past authGuard,
\* whatever token that other origin holds.
C16_OriginScoped ==
  /\ \A k \in DOMAIN hist.issued :
       \A other \in AllowedOrigins \ {hist.issued[k].origin} :
         /\ ~verifyToken(entries, other, hist.issued[k].token)
         /\ authGuard(Ctx, BearerRequest(other, hist.issued[k].token),
                      other, {}).res.status = 401
  /\ (/\ call.op = "authGuard"
      /\ \E k \in DOMAIN hist.issued :
           /\ hist.issued[k].token = call.token
           /\ hist.issued[k].origin # call.origin)
       => (~call.verified /\ call.status = 401)

\* C16 witness: both origins hold a live token, and the token of one has
\* been presented with the Origin of the other and refused.
C16_Witness ==
  \E j, k \in DOMAIN hist.issued :
    /\ hist.issued[j].origin # hist.issued[k].origin
    /\ hist.issued[j].status = "live"
    /\ hist.issued[k].status = "live"
    /\ call.op = "authGuard"
    /\ call.origin = hist.issued[k].origin
    /\ call.token = hist.issued[j].token
    /\ ~call.verified
    /\ call.status = 401

\* the request whose handler has just come back from ensureApproval
Settles == call'.op \in ApprovalRoutes

\* origin has been granted capability through some prompt so far
GrantedSoFar(origin, capability) ==
  \E k \in DOMAIN hist.grants : hist.grants[k] = <<origin, capability>>

\* the opener is spawned or the job enqueued only with hasApproval or after
\* an affirmative answer and the write of config.json
ActsOnlyApproved ==
  call'.fx # {}
    => \/ hasApproval(linked, config', call'.origin, call'.repoPath,
                      call'.capability, AbsRoot) = "true"
       \/ call'.answer = "yes" /\ call'.saved

Turned409 ==
  /\ call'.status = 409
  /\ call'.errorCode = "capability_not_granted"
  /\ call'.fx = {}
  /\ config'.approvals = config.approvals

\* C17 as stated: os/open (terminal, vscode) and deps/install act only with
\* hasApproval or after an affirmative answer and a saved config, and every
\* declined or unavailable prompt ends in 409 capability_not_granted with
\* the approvals unchanged
C17_Literal ==
  [][Settles => /\ ActsOnlyApproved
                /\ call'.answer \in {"no", "notty"} => Turned409]_vars

\* C17: os/open (terminal, vscode) and deps/install act only with
\* hasApproval or after an affirmative answer and a saved config; a declined
\* or unavailable prompt ends in 409 capability_not_granted with the
\* approvals unchanged unless the capability was granted to the origin
\* through another request while the prompt was open
C17_EnsureApproval ==
  [][Settles => /\ ActsOnlyApproved
                /\ (/\ call'.answer \in {"no", "notty"}
                    /\ ~GrantedSoFar(call'.origin, call'.capability))
                     => Turned409]_vars

\* a prompt was declined and answered with 409 after another one had been
\* granted, and the request before it acted on a saved grant
C17_Witness ==
  /\ call.op \in ApprovalRoutes
  /\ call.answer = "no"
  /\ call.status = 409
  /\ hist.grants # <<>>
  /\ pending = <<>>
  /\ hist.calls = 2

\* a handler has just reached ensureApproval
Asks == hist'.calls = hist.calls + 1

\* some approval entry names origin and capability
Listed(origin, capability) ==
  \E i \in DOMAIN config.approvals :
    /\ config.approvals[i].origin = origin
    /\ Includes(config.approvals[i].capabilities, capability)

\* the request goes on to its action with no prompt and no error
PassesSilently ==
  /\ call'.op \in ApprovalRoutes
  /\ call'.answer = "none"
  /\ call'.status \in {200, 202}
  /\ call'.fx # {}
  /\ pending' = pending

\* the request waits at a prompt or is turned down for want of a terminal
NeedsApproval ==
  \/ call'.op = "prompt.await" /\ pending' # pending
  \/ /\ call'.op \in ApprovalRoutes
     /\ call'.answer = "notty"
     /\ call'.status = 409

\* C18: once a capability has been granted to an origin, every later request
\* of that origin for that capability, whatever its path, passes the approval
\* check with no prompt and no error; a request of an origin or for a
\* capability that no entry lists still needs its own approval
C18_GrantCarries ==
  [][Asks =>
       LET origin == call'.origin
           capability == CapabilityOf(call'.route)
       IN /\ GrantedSoFar(origin, capability) => PassesSilently
          /\ ~Listed(origin, capability) => NeedsApproval]_vars

\* entry approves the call as section 4.5 of the specification has it
Approves(entry, c) ==
  /\ entry.origin = c.origin
  /\ Includes(entry.capabilities, c.capability)
  /\ \/ entry.repoPath \in {Null, <<"*">>}
     \/ entry.repoPath = c.repoPath
     \/ /\ entry.repoPath # Null
        /\ ~isAbsolute(entry.repoPath)
        /\ ResolveFrom(AbsRoot, entry.repoPath) = c.repoPath

\* C19: hasApproval, called with the workspace root, returns true exactly
\* when some entry has the origin and the capability and a repoPath that is
\* the wildcard or null, or equal to the argument, or relative and equal to
\* it once resolved against the workspace root; otherwise it returns false
\* and does not throw
C19_HasApproval ==
  (call.op = "hasApproval" /\ call.workspaceRoot = AbsRoot)
    => call.out = IF \E i \in DOMAIN config.approvals :
                       Approves(config.approvals[i], call)
                  THEN "true" ELSE "false"

\* the positions of the wildcard entries of origin in a list of approvals
Wildcards(approvals, origin) ==
  {i \in DOMAIN approvals : /\ approvals[i].origin = origin
                            /\ approvals[i].repoPath \in {Null, <<"*">>}}

\* the capabilities origin has been granted: by the prompts so far, and
\* before the start as the loaded wildcard entries record it
GrantedTo(origin) ==
  {c \in Capabilities : GrantedSoFar(origin, c)}
    \cup {c \in Capabilities :
            \E i \in Wildcards(hist.loaded, origin) :
              Includes(hist.loaded[i].capabilities, c)}

DuplicateFree(seq) ==
  \A i, j \in DOMAIN seq : seq[i] = seq[j] => i = j

\* a prompt is answered yes for a capability the wildcard entry already has
GrantsHeld ==
  /\ Len(hist'.grants) = Len(hist.grants) + 1
  /\ LET g == hist'.grants[Len(hist'.grants)]
     IN \E i \in Wildcards(config.approvals, g[1]) :
          Includes(config.approvals[i].capabilities, g[2])

PathRoutes ==
  {r \in ProtectedRoutes :
     r.path \in {"/v1/git/clone", "/v1/git/fetch", "/v1/git/status",
                 "/v1/os/open", "/v1/deps/install"}}

\* C21: an admitted request with a valid token to a path-taking route
\* (git/clone, git/fetch, git/status, os/open, deps/install) that passes
\* schema validation while no workspace root is configured is answered 409
\* workspace_required; no job is enqueued and no process is spawned
C21_WorkspaceRequired ==
  [][(/\ Answered
      /\ req.route \in PathRoutes
      /\ ReachesRoute
      /\ ValidBearer
      /\ req.args.input \notin {"bad_schema", "bad_url"}
      /\ ~config.workspaceRoot)
       => /\ res'.status = 409
          /\ res'.errorCode = "workspace_required"
          /\ res'.fx \cap {"jobs.enqueue", "spawn", "mkdir", "prompt"} = {}
          /\ UNCHANGED <<jobs, queue, running, task>>]_vars

\* deps/install of a repository that exists, with a valid token, is answered
\* 409 workspace_required
C21_Witness ==
  /\ res.status = 409
  /\ res.errorCode = "workspace_required"
  /\ req.route = Route("POST", "/v1/deps/install")
  /\ req.args.input = "ok"
  /\ req.auth = AuthHeader("Bearer", "t1")
  /\ ~config.workspaceRoot
  /\ jobs = <<>>

\* the clone handler has answered
Cloned == call.op = "POST /v1/git/clone"

\* the repoUrl begins with file://, /, ./ or ../
BeginsLocal(value) ==
  \/ StartsWith(value, <<"file://">>)
  \/ StartsWith(value, <<"/">>)
  \/ StartsWith(value, <<".", "/">>)
  \/ StartsWith(value, <<".", ".", "/">>)

\* C22: a git/clone request whose repoUrl begins with file://, /, ./ or ../,
\* or matches none of the forms git@host:path, https://host/path and
\* ssh://host/path, is answered 422 invalid_repo_url; no job is enqueued and
\* no directory is created for it.
C22_InvalidRepoUrl ==
  (/\ Cloned
   /\ BeginsLocal(call.body.repoUrl) \/ ~MatchesSomeForm(call.body.repoUrl))
    => /\ call.out.status = 422
       /\ call.out.errorCode = "invalid_repo_url"
       /\ call.out.fx \cap {"mkdir", "jobs.enqueue"} = {}
       /\ jobs = <<>>
       /\ queue = <<>>

\* a https URL with a host and no path is refused although the destination
\* could be created
C22_Witness ==
  /\ Cloned
  /\ call.body.repoUrl = <<"https://", "a", "/">>
  /\ call.body.destRelative = NewDest
  /\ ~call.body.blank
  /\ config.workspaceRoot
  /\ call.out.status = 422
  /\ call.out.errorCode = "invalid_repo_url"

\* the destRelative is absolute, or its normal form is "." or begins with ".."
LeavesWorkspace(target) ==
  \/ target.abs
  \/ NormalizeRelative(<<>>, target.parts) = <<>>
  \/ StartsWithDotDot(NormalizeRelative(<<>>, target.parts)[1])

PathOutside ==
  /\ call.out.status = 409
  /\ call.out.errorCode = "path_outside_workspace"
  /\ call.out.fx \cap {"mkdir", "jobs.enqueue"} = {}
  /\ jobs = <<>>
  /\ queue = <<>>

\* C23 as stated: a git/clone request whose destRelative is absolute, or
\* whose normal form is "." or begins with "..", is answered 409
\* path_outside_workspace before any directory is created and before any job
\* is enqueued.
C23_Literal ==
  (Cloned /\ ~call.body.blank /\ LeavesWorkspace(call.body.destRelative))
    => PathOutside

\* C23 amended: a git/clone request that passes schema validation while a
\* workspace root is configured, and whose destRelative is absolute or has a
\* normal form that is "." or begins with "..", is answered 409
\* path_outside_workspace before any directory is created and before any job
\* is enqueued.
C23_PathOutside ==
  (/\ Cloned
   /\ ~RepoUrlIssue(call.body)
   /\ ~DestIssue(call.body)
   /\ config.workspaceRoot
   /\ LeavesWorkspace(call.body.destRelative))
    => PathOutside

\* a/.. names the workspace root itself and is refused
C23_Witness ==
  /\ Cloned
  /\ call.body.repoUrl = GoodUrl
  /\ call.body.destRelative =
       [abs |-> FALSE, parts |-> <<"a", "..">>, tooLong |-> FALSE]
  /\ <<"ws", "a">> \in call.layout.dirs
  /\ config.workspaceRoot
  /\ PathOutside

\* C24: GET /v1/meta reports pairing.paired = true exactly when the token
\* store holds an unexpired record for the request's Origin: false before
\* any pairing, true once a token was issued to that origin, false again
\* after its revocation or expiry, whatever was issued to other origins.
C24_Paired ==
  [][(/\ call'.op = "GET /v1/meta"
      /\ call' # call \/ entries' # entries
      /\ hist' = hist)
       => /\ call'.paired
               = (\E i \in DOMAIN entries :
                    entries[i].origin = call'.origin /\ ~entries[i].expired)
          /\ call'.paired
               = (\E k \in DOMAIN hist.issued :
                    /\ hist.issued[k].origin = call'.origin
                    /\ hist.issued[k].status = "live")]_vars

\* the origin's token was revoked or has expired, another origin holds a
\* live token, and /v1/meta reports the first origin as not paired
C24_Witness ==
  /\ call.op = "GET /v1/meta"
  /\ ~call.paired
  /\ \E k \in DOMAIN hist.issued :
       /\ hist.issued[k].origin = call.origin
       /\ hist.issued[k].returned
       /\ hist.issued[k].status = "expired"
  /\ \E k \in DOMAIN hist.issued :
       /\ hist.issued[k].origin # call.origin
       /\ hist.issued[k].returned
       /\ hist.issued[k].status = "live"

\* the request fails the loopback, Host or Origin check
FailsGuard ==
  \/ ~isLoopbackAddress(req.peer)
  \/ Hostname(req.host) \notin ALLOWED_HOSTS
  \/ ~Allowlisted(req.origin)

\* C25: a request that fails the loopback, Host or Origin check reaches
\* neither a rate limiter, nor token verification, nor any route handler: it
\* increments no rate-limit counter and leaves pairing codes, tokens,
\* approvals, the job queue and all jobs unchanged.
C25_GuardsFirst ==
  [][(Answered /\ FailsGuard)
       => /\ res'.fx \cap (HandlerEffects
                            \cup {"rateLimit", "pairRateLimit", "verifyToken",
                                  "getActiveToken"}) = {}
          /\ UNCHANGED <<hits, codes, entries, config, jobs, queue, running,
                         history, task>>]_vars

\* a clone request with a valid token and a foreign Host header has been
\* turned away after earlier requests had been counted
C25_Witness ==
  /\ req.route = Route("POST", "/v1/git/clone")
  /\ req.auth = AuthHeader("Bearer", "t1")
  /\ req.body = "json"
  /\ isLoopbackAddress(req.peer)
  /\ Allowlisted(req.origin)
  /\ Hostname(req.host) \notin ALLOWED_HOSTS
  /\ entries = PairedA
  /\ res.status = 403
  /\ hits.global = 1

\* cancel(id) runs while job id is queued
CancelsQueued(id) ==
  /\ id \in DOMAIN jobs
  /\ jobs[id].state = "queued"
  /\ last' # last
  /\ last'.op = "cancel"
  /\ last'.id = id

\* the job was cancelled before it was started
CancelledQueued(id) ==
  id \in DOMAIN jobs /\ jobs[id].state = "cancelled" /\ ~jobs[id].startedAt

\* C26: a job cancelled while it is queued is removed from the queue, gets
\* state cancelled with exactly one event (state=cancelled) on its ring, is
\* never started afterwards (its runner is never invoked, startedAt stays
\* unset), and the cancel leaves the running counter and the order of the
\* other queued jobs unchanged.
C26_CancelQueued ==
  [][\A id \in 1..QueueJobs :
       /\ CancelsQueued(id)
            => /\ queue' = SelectSeq(queue, LAMBDA q : q # id)
               /\ jobs'[id].state = "cancelled"
               /\ jobs'[id].events = <<StateEvent("cancelled", "")>>
               /\ ~jobs'[id].startedAt
               /\ running' = running
               /\ \A other \in DOMAIN jobs \ {id} : jobs'[other] = jobs[other]
               /\ task' = task
       /\ CancelledQueued(id)
            => /\ jobs'[id] = jobs[id]
               /\ task'[id] = NewTask
               /\ \A i \in DOMAIN queue' : queue'[i] # id]_vars

\* the second of three queued jobs was cancelled; the other two were started
\* later, in their order, and the cancelled one never was
C26_Witness ==
  /\ maxConcurrent = 1
  /\ Len(jobs) = 4
  /\ CancelledQueued(3)
  /\ jobs[3].events = <<StateEvent("cancelled", "")>>
  /\ jobs[1].state = "done"
  /\ jobs[2].state = "done"
  /\ jobs[4].state = "running"
  /\ queue = <<>>

\* the job was started and then cancelled, or its timeout fired while it ran
StoppedWhileRunning(id) ==
  \/ jobs[id].state = "cancelled" /\ jobs[id].startedAt
  \/ task[id].timedOut

\* C27: whenever a running job is cancelled or times out, its child process
\* tree is signalled with SIGTERM, and no child process is spawned for that
\* job after its state became terminal, also when the cancel arrives after
\* the job started but before its runner has spawned the child and
\* registered the cancel handle.
C27_SigtermNoLateSpawn ==
  /\ [](\A id \in DOMAIN jobs :
          (StoppedWhileRunning(id) /\ task[id].runner = "spawned")
            => task[id].sigterm)
  /\ [][\A id \in DOMAIN jobs :
          (task[id].runner = "starting" /\ task'[id].runner = "spawned")
            => jobs[id].state = "running"]_vars

\* the runner of job id settles in this step
SettlesNow(id) ==
  /\ id \in DOMAIN jobs
  /\ task[id].runner \in {"starting", "spawned"}
  /\ task'[id].runner = "settled"

\* C28: every settlement of a started runner (success or failure, also after
\* its job was cancelled or timed out) clears the job's timer, decrements
\* running exactly once and drains the queue; hence, if every started runner
\* eventually settles, every queued job that is not cancelled is eventually
\* started.
C28_SettleDrains ==
  /\ [][\A id \in JobIds :
          SettlesNow(id)
            => /\ task'[id].timer # "armed"
               /\ running' = running - 1 + (Len(queue) - Len(queue'))
               /\ queue' = SubSeq(queue, Len(queue) - Len(queue') + 1,
                                  Len(queue))
               /\ queue' = <<>> \/ running' >= maxConcurrent
               /\ \A i \in 1..(Len(queue) - Len(queue')) :
                    jobs'[queue[i]].state = "running"]_vars
  /\ \A id \in JobIds :
       (id \in DOMAIN jobs /\ jobs[id].state = "queued")
         ~> (/\ id \in DOMAIN jobs
             /\ jobs[id].startedAt \/ jobs[id].state = "cancelled")

\* the runner of a cancelled job has settled with its timer cleared, and the
\* job queued behind it was started by that settlement
C28_Witness ==
  /\ maxConcurrent = 1
  /\ Len(jobs) = 2
  /\ jobs[1].state = "cancelled"
  /\ task[1].runner = "settled"
  /\ task[1].timer = "cleared"
  /\ jobs[2].state = "running"
  /\ running = 1
  /\ last = Async

\* C29: jobs are started in the order they were enqueued (ids count the
\* calls of enqueue): whenever a job has been started, every job enqueued
\* before it has been started already or was cancelled in the queue, for
\* every maxConcurrent and every interleaving of settlements; the queue
\* holds its jobs in the order of their enqueueing, and cancelling a queued
\* job keeps the order of the remaining ones.
C29_Fifo ==
  /\ [](\A a, b \in DOMAIN jobs :
          (a < b /\ jobs[b].startedAt)
            => (jobs[a].startedAt \/ jobs[a].state = "cancelled"))
  /\ [](\A i, k \in DOMAIN queue : i < k => queue[i] < queue[k])
  /\ [][last'.op = "cancel" /\ last' # last
          => queue' = SelectSeq(queue, LAMBDA q : q # last'.id)]_vars

\* with two slots the second job finished first, the third was started in
\* its place while the first still runs, and the fourth waits
C29_Witness ==
  /\ maxConcurrent = 2
  /\ Len(jobs) = 4
  /\ jobs[1].state = "running"
  /\ jobs[2].state = "done"
  /\ jobs[3].state = "running"
  /\ jobs[4].state = "queued"
  /\ queue = <<4>>

\* the last n elements of seq, all of them when it has fewer
Newest(seq, n) ==
  IF Len(seq) <= n THEN seq ELSE SubSeq(seq, Len(seq) - n + 1, Len(seq))

\* C30: in every reachable state the history holds at most HISTORY_LIMIT
\* jobs (100 in the code) and every job's event ring at most MAX_EVENTS
\* events (2000 in the code); an insertion beyond the bound drops exactly the
\* oldest entry and keeps the order of the rest, so the history is the
\* newest jobs in enqueue order and the ring the newest events in the order
\* emitted.
C30_Bounded ==
  /\ Len(history) <= HISTORY_LIMIT
  /\ history = Newest([i \in 1..Len(jobs) |-> i], HISTORY_LIMIT)
  /\ \A id \in DOMAIN jobs :
       /\ Len(jobs[id].events) <= MAX_EVENTS
       /\ jobs[id].events = Newest(emitted[id], MAX_EVENTS)

\* the first job has fallen out of the history, and the third job's ring has
\* lost its state=running event and ends with a log line and state=done
C30_Witness ==
  /\ Len(jobs) = 3
  /\ history = <<2, 3>>
  /\ Len(emitted[3]) = 3
  /\ jobs[3].events = <<LogEvent("stdout", 1), StateEvent("done", "")>>

\* the cancel route answers a request for job id in this step
CancelAnswered(id) ==
  /\ hist'.calls = hist.calls + 1
  /\ call'.op = "POST /v1/jobs/:id/cancel"
  /\ call'.id = id

Terminal(id) == id \in DOMAIN jobs /\ jobs[id].state \in TerminalStates

\* C31: POST /v1/jobs/{id}/cancel on a job whose state is done, error or
\* cancelled answers 409 and leaves the job untouched; on an unknown id it
\* answers 404 job_not_found; a request is accepted only for a queued or
\* running job, which it makes cancelled, and a terminal job never becomes
\* queued or running again, so of two cancel requests for one job at most one
\* is accepted.
C31_CancelRoute ==
  [][\A id \in JobIds :
       /\ CancelAnswered(id)
            => /\ id \notin DOMAIN jobs
                    => /\ call'.status = 404
                       /\ call'.errorCode = "job_not_found"
                       /\ UNCHANGED <<jobs, queue, running, task, emitted>>
               /\ Terminal(id)
                    => /\ call'.status = 409
                       /\ UNCHANGED <<jobs, queue, running, task, emitted>>
               /\ call'.status = 200
                    => /\ id \in DOMAIN jobs
                       /\ jobs[id].state \in {"queued", "running"}
                       /\ jobs'[id].state = "cancelled"
       /\ Terminal(id) => jobs'[id].state \in TerminalStates]_vars

\* the second cancel request for a job that had finished by itself is
\* answered 409
C31_Witness ==
  /\ call.op = "POST /v1/jobs/:id/cancel"
  /\ call.n = 2
  /\ call.status = 409
  /\ jobs[call.id].state = "done"
  /\ jobs[call.id].events[Len(jobs[call.id].events)] = StateEvent("done", "")

\* C32: with allowMissing=false a candidate that denotes a location outside
\* the workspace root once its symlinks are followed fails
\* path_outside_workspace whether or not that location exists, so the
\* outcome never tells whether a location outside the workspace exists.
C32_OutsideFirst ==
  (/\ call.op = "resolveInsideWorkspace"
   /\ ~call.allowMissing
   /\ ~call.candidate.tooLong
   /\ ~IsPrefix(WsRoot,
                Denotes(call.layout, PathResolve(WsRoot, call.candidate))))
    => call.out = Thrown("path_outside_workspace")
\* the request got past express.json and passed the loopback, Host and
\* Origin checks
PassesGuards ==
  /\ req.body = "json"
  /\ isLoopbackAddress(req.peer)
  /\ Hostname(req.host) \in ALLOWED_HOSTS
  /\ Allowlisted(req.origin)

C34_NpmCommand ==
  (call.op = "buildInstallCommand" /\ call.manager = "npm")
    => /\ call.out.command = "npm"
       /\ call.out.args =
            <<IF hasAnyLockfile(call.files) /\ call.mode # "install"
              THEN "ci" ELSE "install">>
              \o (IF call.safer THEN <<"--ignore-scripts">> ELSE <<>>)

\* C35: once every issueToken and revokeToken call has completed, also
\* calls that overlapped, tokens.json holds the store's in-memory records.
C35_DiskIsMemory ==
  (pending = <<>> /\ call.op = "fs.writeFile") => call.data = entries

\* the runners that were started by runJob and have not settled
Unsettled == {id \in DOMAIN task : task[id].runner \in {"starting", "spawned"}}

\* C36: running always equals the number of runners started and not yet
\* settled and stays within 0..maxConcurrent; a cancelled or timed-out job
\* keeps its slot until its runner settles, so a cancel of a running job, or
\* its timeout, starts no queued job.
C36_SlotsHeld ==
  /\ [](running = Cardinality(Unsettled) /\ running \in 0..maxConcurrent)
  /\ [][\A id \in DOMAIN jobs :
          (/\ jobs[id].state = "running"
           /\ \/ last'.op = "cancel" /\ last'.id = id
              \/ task[id].timer = "armed" /\ task'[id].timer = "fired")
            => /\ running' = running
               /\ queue' = queue
               /\ Unsettled' = Unsettled
               /\ id \in Unsettled']_vars

\* a running job was cancelled with a slot-less job waiting behind it: the
\* runner has not settled, the slot is still taken and the other job is
\* still queued
C36_Witness ==
  /\ maxConcurrent = 1
  /\ last.op = "cancel" /\ last.ret
  /\ last.id \in DOMAIN jobs
  /\ jobs[last.id].state = "cancelled"
  /\ last.id \in Unsettled
  /\ running = 1
  /\ queue # <<>>

\* C37: between operations (after enqueue, cancel or a runner settlement has
\* returned) a non-empty queue implies running = maxConcurrent: no job waits
\* while a slot is free.
C37_NoIdleSlot == queue # <<>> => running = maxConcurrent

\* a runner has settled and its slot went to the next job in line, while
\* another job is still waiting behind a full set of slots
C37_Witness ==
  /\ \E id \in DOMAIN task : task[id].runner = "settled"
  /\ queue # <<>>
  /\ running = maxConcurrent
  /\ last.op = "async"

\* C38: a job has an error exactly when its state is error, and finishedAt
\* exactly when its state is done, error or cancelled; a running, done or
\* cancelled job never carries an error, also while the timeout callback is
\* suspended awaiting the cancel handle.
C38_ErrorIffFailed ==
  \A id \in DOMAIN jobs :
    /\ jobs[id].error # "none" <=> jobs[id].state = "error"
    /\ jobs[id].finishedAt <=> jobs[id].state \in {"done", "error", "cancelled"}

\* a request under /v1/jobs/:id, or for the diagnostics, is answered
RequestAnswered == hist'.calls = hist.calls + 1

C40_OneCloneJobPerDest ==
  \A i, k \in DOMAIN pending :
    (/\ i # k
     /\ jobs[pending[i].job].state \in {"queued", "running"}
     /\ jobs[pending[k].job].state \in {"queued", "running"})
      => pending[i].destRelative # pending[k].destRelative

====
